---- MODULE Spec2Model ----
(***************************************************************************)
(* The MetaMorpho vault reconciliation handlers of apps/ponder: each       *)
(* ponder.on(...) handler of src/MetaMorpho.ts is one action, applied to    *)
(* the tables vault, vaultBalance, transaction, vaultConfigItem,            *)
(* vaultSupplyQueueItem and vaultWithdrawQueueItem.                         *)
(*                                                                         *)
(* A table is a function from the primary keys of its rows to the rows.    *)
(* db.find returns the row or null, db.update(...).set throws when the row  *)
(* is missing, db.insert(...).values throws on a key that exists and        *)
(* db.insert(...).values(...).onConflictDoUpdate upserts.                   *)
(***************************************************************************)
EXTENDS Integers, Sequences, FiniteSets, TLC

VARIABLES vault, vaultBalance, transaction, vaultConfigItem, vaultSupplyQueueItem,
          vaultWithdrawQueueItem, last, nEvents, selector, parsed

vars == <<vault, vaultBalance, transaction, vaultConfigItem, vaultSupplyQueueItem,
          vaultWithdrawQueueItem, last, nEvents, selector, parsed>>

tables == <<vault, vaultBalance, transaction, vaultConfigItem, vaultSupplyQueueItem,
            vaultWithdrawQueueItem>>

(***************************************************************************)
(* Bounds of the model.                                                    *)
(***************************************************************************)
\* events delivered in one behaviour
MaxEvents == 4

\* markets in the queue of a SetSupplyQueue or SetWithdrawQueue event
MaxQueueLen == 2

\* calls of convertToAssets the node answers for one event
MaxCalls == 2

(***************************************************************************)
(* Values.                                                                 *)
(***************************************************************************)
zeroAddress == "0x0"

Users == {"a", "b"}

Addresses == {zeroAddress} \cup Users

Null == "null"

\* the share and asset amounts an event carries
Values == {0, 1, 2}

\* (transaction hash, log index) of a log entry
LogIds == {"h1", "h2"}

NoError == [type |-> "none", table |-> "none"]

RecordNotFoundError(tableName) == [type |-> "RecordNotFoundError", table |-> tableName]

UniqueConstraintError(tableName) == [type |-> "UniqueConstraintError", table |-> tableName]

ContractCallError == [type |-> "ContractFunctionExecutionError", table |-> "none"]

\* the store rejects a write
StoreError == [type |-> "StoreError", table |-> "none"]

\* what a handler has in hand: the tables and the error it has thrown
Db == [vault |-> vault, vaultBalance |-> vaultBalance, transaction |-> transaction,
       vaultConfigItem |-> vaultConfigItem,
       vaultSupplyQueueItem |-> vaultSupplyQueueItem,
       vaultWithdrawQueueItem |-> vaultWithdrawQueueItem,
       error |-> NoError]

Failed(db) == db.error # NoError

Throw(db, e) == [db EXCEPT !.error = e]

(***************************************************************************)
(* The store's operations.                                                 *)
(***************************************************************************)
\* context.db.find(table, key) returns a row
Exists(table, key) == key \in DOMAIN table

\* context.db.insert(table).values(row) on a key that has no row
Put(table, key, row) == [k \in DOMAIN table \cup {key} |-> IF k = key THEN row ELSE table[k]]

(***************************************************************************)
(* MetaMorphoFactory:CreateMetaMorpho                                      *)
(***************************************************************************)
Max(x, y) == IF x >= y THEN x ELSE y

\* the columns CreateMetaMorpho does not set take the schema's defaults
VaultDefaults == [pendingOwner |-> zeroAddress,
                  curator |-> zeroAddress,
                  guardian |-> zeroAddress,
                  pendingGuardian |-> zeroAddress,
                  pendingGuardianValidAt |-> 0,
                  pendingTimelock |-> 0,
                  pendingTimelockValidAt |-> 0,
                  fee |-> 0,
                  feeRecipient |-> zeroAddress,
                  skimRecipient |-> zeroAddress,
                  totalSupply |-> 0,
                  lastTotalAssets |-> 0,
                  lostAssets |-> 0,
                  supplyQueueLength |-> 0,
                  withdrawQueueLength |-> 0,
                  allocators |-> <<>>]

NewVaultRow(ev) == [asset |-> ev.asset,
                    decimalsUnderlying |-> ev.decimalsUnderlying,
                    decimalsOffset |-> Max(0, 18 - ev.decimalsUnderlying),
                    owner |-> ev.initialOwner,
                    timelock |-> ev.initialTimelock,
                    name |-> ev.name,
                    symbol |-> ev.symbol] @@ VaultDefaults

\* CreateMetaMorphoHandler that writes over the row the vault already has
CreateMetaMorphoOverwrites(db, ev) ==
    [db EXCEPT !.vault = Put(db.vault, <<ev.chainId, ev.address>>, NewVaultRow(ev))]

VaultKey(ev) == <<ev.chainId, ev.address>>

CreateMetaMorphoHandler(db, ev) ==
    IF Exists(db.vault, VaultKey(ev))
    THEN Throw(db, UniqueConstraintError("vault"))
    ELSE [db EXCEPT !.vault = Put(db.vault, VaultKey(ev), NewVaultRow(ev))]

(***************************************************************************)
(* Handlers that update one column set of the vault row.                   *)
(***************************************************************************)
\* context.db.update(vault, key).set(values): throws when there is no row
UpdateVault(db, key, values) ==
    IF Exists(db.vault, key)
    THEN [db EXCEPT !.vault = [db.vault EXCEPT ![key] = values @@ @]]
    ELSE Throw(db, RecordNotFoundError("vault"))

\* String(e).includes("No existing record found in table 'vault'")
IsNoVaultRecord(e) == e.type = "RecordNotFoundError" /\ e.table = "vault"

\* Tolerant without the test of the error: every error is thrown again
TolerantRethrows(db, updated) == updated

\* Tolerant that turns every failure of the update into a no-op
TolerantSwallowsAll(db, updated) == IF Failed(updated) THEN db ELSE updated

\* try { update } catch (e) { if (no vault record) return; throw e }
Tolerant(db, updated) ==
    IF Failed(updated) /\ IsNoVaultRecord(updated.error) THEN db ELSE updated

\* OwnershipTransferredHandler that leaves pendingOwner as it is
OwnershipTransferredKeepsPending(db, ev) ==
    Tolerant(db, UpdateVault(db, VaultKey(ev), [owner |-> ev.newOwner]))

OwnershipTransferredHandler(db, ev) ==
    Tolerant(db, UpdateVault(db, VaultKey(ev),
                             [owner |-> ev.newOwner, pendingOwner |-> zeroAddress]))

SetNameHandler(db, ev) ==
    Tolerant(db, UpdateVault(db, VaultKey(ev), [name |-> ev.name]))

SetSymbolHandler(db, ev) ==
    Tolerant(db, UpdateVault(db, VaultKey(ev), [symbol |-> ev.symbol]))

SetTimelockHandler(db, ev) ==
    Tolerant(db, UpdateVault(db, VaultKey(ev),
                             [timelock |-> ev.newTimelock, pendingTimelock |-> 0,
                              pendingTimelockValidAt |-> 0]))

SetFeeRecipientHandler(db, ev) ==
    UpdateVault(db, VaultKey(ev), [feeRecipient |-> ev.newFeeRecipient])

(***************************************************************************)
(* MetaMorpho:Transfer                                                     *)
(***************************************************************************)
\* BalanceKey without the chain of the event
BalanceKeyOneChain(ev, user) == <<1, ev.address, user>>

\* the primary key of the vaultBalance table
BalanceKey(ev, user) == <<ev.chainId, ev.address, user>>

\* the primary key of the transaction table
TransactionKey(ev) == <<ev.chainId, ev.hash, ev.logIndex>>

\* context.db.update(vault, key).set((row) => ({ totalSupply: row.totalSupply + delta }))
AddTotalSupply(db, key, delta) ==
    IF Exists(db.vault, key)
    THEN [db EXCEPT !.vault = [db.vault EXCEPT ![key].totalSupply = @ + delta]]
    ELSE Throw(db, RecordNotFoundError("vault"))

\* context.db.update(vaultBalance, key).set((row) => ({ shares: row.shares + delta }))
UpdateShares(key, delta) == [kind |-> "update", key |-> key, delta |-> delta]

\* context.db.insert(vaultBalance).values({ shares: value })
\*   .onConflictDoUpdate((row) => ({ shares: row.shares + value }))
UpsertShares(key, value) == [kind |-> "upsert", key |-> key, delta |-> value]

\* a write reads the row, and then writes what it computed from the row it read
ReadRow(table, key) ==
    IF Exists(table, key) THEN [found |-> TRUE, shares |-> table[key].shares]
    ELSE [found |-> FALSE, shares |-> 0]

\* WriteRow that deletes the row when its shares come to 0
WriteRowDropsEmpty(st, i, op) ==
    IF op.kind = "update" /\ ~st.seen[i].found
    THEN [st EXCEPT !.errors[i] = RecordNotFoundError("vaultBalance")]
    ELSE LET shares == IF st.seen[i].found THEN st.seen[i].shares + op.delta
                       ELSE op.delta
         IN  IF shares = 0
             THEN [st EXCEPT !.table = [k \in DOMAIN st.table \ {op.key} |-> st.table[k]]]
             ELSE [st EXCEPT !.table = Put(st.table, op.key, [shares |-> shares])]

WriteRow(st, i, op) ==
    IF op.kind = "update" /\ ~st.seen[i].found
    THEN [st EXCEPT !.errors[i] = RecordNotFoundError("vaultBalance")]
    ELSE [st EXCEPT !.table = Put(st.table, op.key,
                                  [shares |-> IF st.seen[i].found
                                              THEN st.seen[i].shares + op.delta
                                              ELSE op.delta])]

StepWrite(st, ops, s) ==
    IF s[2] = "read"
    THEN [st EXCEPT !.seen[s[1]] = ReadRow(st.table, ops[s[1]].key)]
    ELSE WriteRow(st, s[1], ops[s[1]])

RECURSIVE RunWrites(_, _, _)
RunWrites(st, ops, sched) ==
    IF sched = <<>> THEN st
    ELSE RunWrites(StepWrite(st, ops, Head(sched)), ops, Tail(sched))

\* the orders in which the two writes of a Promise.all read and write
Interleavings ==
    {<<<<1, "read">>, <<1, "write">>, <<2, "read">>, <<2, "write">>>>,
     <<<<2, "read">>, <<2, "write">>, <<1, "read">>, <<1, "write">>>>,
     <<<<1, "read">>, <<2, "read">>, <<1, "write">>, <<2, "write">>>>,
     <<<<1, "read">>, <<2, "read">>, <<2, "write">>, <<1, "write">>>>,
     <<<<2, "read">>, <<1, "read">>, <<1, "write">>, <<2, "write">>>>,
     <<<<2, "read">>, <<1, "read">>, <<2, "write">>, <<1, "write">>>>}

\* await Promise.all([write 1, write 2]) on the vaultBalance table
PromiseAllShares(db, op1, op2, sched) ==
    LET st0 == [table |-> db.vaultBalance,
                seen |-> [i \in {1, 2} |-> [found |-> FALSE, shares |-> 0]],
                errors |-> [i \in {1, 2} |-> NoError]]
        st == RunWrites(st0, <<op1, op2>>, sched)
        done == [db EXCEPT !.vaultBalance = st.table]
    IN  IF st.errors[1] # NoError THEN Throw(done, st.errors[1])
        ELSE IF st.errors[2] # NoError THEN Throw(done, st.errors[2])
        ELSE done

\* await Promise.all([update of the vault row, write of a vaultBalance row])
PromiseAllSupplyShares(db, key, delta, op) ==
    LET supplied == AddTotalSupply(db, key, delta)
        st0 == [table |-> db.vaultBalance,
                seen |-> [i \in {1} |-> ReadRow(db.vaultBalance, op.key)],
                errors |-> [i \in {1} |-> NoError]]
        st == WriteRow(st0, 1, op)
        done == [supplied EXCEPT !.vaultBalance = st.table]
    IN  IF Failed(supplied) \/ st.errors[1] = NoError THEN done
        ELSE Throw(done, st.errors[1])

\* TransferMint with an upsert that overwrites the shares
TransferMintOverwrites(db, ev) ==
    LET supplied == AddTotalSupply(db, VaultKey(ev), ev.value)
    IN  [supplied EXCEPT !.vaultBalance =
             Put(db.vaultBalance, BalanceKey(ev, ev.to), [shares |-> ev.value])]

\* from = 0x0
TransferMint(db, ev) ==
    PromiseAllSupplyShares(db, VaultKey(ev), ev.value,
                           UpsertShares(BalanceKey(ev, ev.to), ev.value))

\* TransferBurn without the update of the vault row
TransferBurnKeepsSupply(db, ev) ==
    PromiseAllSupplyShares(db, VaultKey(ev), 0,
                           UpdateShares(BalanceKey(ev, ev.from), 0 - ev.value))

\* to = 0x0
TransferBurn(db, ev) ==
    PromiseAllSupplyShares(db, VaultKey(ev), 0 - ev.value,
                           UpdateShares(BalanceKey(ev, ev.from), 0 - ev.value))

\* from != 0x0 and to != 0x0: the two balance writes
TransferShares(db, ev, sched) ==
    PromiseAllShares(db, UpdateShares(BalanceKey(ev, ev.from), 0 - ev.value),
                     UpsertShares(BalanceKey(ev, ev.to), ev.value), sched)

\* TransferType with the recipient compared to the vault's owner
TransferTypeByOwner(db, ev) ==
    IF Exists(db.vault, VaultKey(ev)) /\ ev.to = db.vault[VaultKey(ev)].owner
    THEN "MetaMorphoFee" ELSE "MetaMorphoTransfer"

\* isFee ? "MetaMorphoFee" : "MetaMorphoTransfer"
TransferType(db, ev) ==
    IF Exists(db.vault, VaultKey(ev)) /\ ev.to = db.vault[VaultKey(ev)].feeRecipient
    THEN "MetaMorphoFee" ELSE "MetaMorphoTransfer"

\* InsertTransaction as an upsert: a row that exists is overwritten
InsertTransactionOverwrites(db, ev, row) ==
    [db EXCEPT !.transaction = Put(db.transaction, TransactionKey(ev), row)]

\* context.db.insert(transaction).values(row)
InsertTransaction(db, ev, row) ==
    IF Exists(db.transaction, TransactionKey(ev))
    THEN Throw(db, UniqueConstraintError("transaction"))
    ELSE [db EXCEPT !.transaction = Put(db.transaction, TransactionKey(ev), row)]

TransactionRow(ev, type, user, sender, receiver, marketId, shares, assets) ==
    [blockNumber |-> ev.blockNumber, timestamp |-> ev.timestamp, type |-> type,
     user |-> user, sender |-> sender, receiver |-> receiver,
     vaultAddress |-> ev.address, marketId |-> marketId,
     vaultShares |-> shares, vaultAssets |-> assets]

\* the transaction row of a pure transfer; conv is what convertToAssets answers
TransferRecord(db, ev, conv) ==
    IF ~conv.ok THEN Throw(db, ContractCallError)
    ELSE InsertTransaction(db, ev,
             TransactionRow(ev, TransferType(db, ev), ev.from, ev.from, ev.to, Null,
                            ev.value, conv.assets))

\* TransferHandler that inserts a transaction row for a mint and a burn too
TransferHandlerRecordsAll(db, ev, sched, conv) ==
    IF ev.value = 0 THEN db
    ELSE LET moved == IF ev.from = zeroAddress THEN TransferMint(db, ev)
                      ELSE IF ev.to = zeroAddress THEN TransferBurn(db, ev)
                      ELSE TransferShares(db, ev, sched)
         IN  IF Failed(moved) THEN moved ELSE TransferRecord(moved, ev, conv)

TransferHandler(db, ev, sched, conv) ==
    IF ev.value = 0 THEN db
    ELSE IF ev.from = zeroAddress THEN TransferMint(db, ev)
    ELSE IF ev.to = zeroAddress THEN TransferBurn(db, ev)
    ELSE LET moved == TransferShares(db, ev, sched)
         IN  IF Failed(moved) THEN moved ELSE TransferRecord(moved, ev, conv)

(***************************************************************************)
(* MetaMorpho:Deposit and MetaMorpho:Withdraw                              *)
(***************************************************************************)
\* WithdrawHandler that also takes the shares from the owner's balance
WithdrawHandlerBurns(db, ev) ==
    IF ev.shares = 0 THEN db
    ELSE LET bk == BalanceKey(ev, ev.owner)
             burnt == IF Exists(db.vaultBalance, bk)
                      THEN [db EXCEPT !.vaultBalance[bk].shares = @ - ev.shares]
                      ELSE db
         IN  InsertTransaction(burnt, ev,
                 TransactionRow(ev, "MetaMorphoWithdraw", ev.owner, ev.sender,
                                ev.receiver, Null, ev.shares, ev.assets))

\* DepositHandler that tests the assets instead of the shares
DepositHandlerTestsAssets(db, ev) ==
    IF ev.assets = 0 THEN db
    ELSE InsertTransaction(db, ev,
             TransactionRow(ev, "MetaMorphoDeposit", ev.owner, ev.sender, Null, Null,
                            ev.shares, ev.assets))

DepositHandler(db, ev) ==
    IF ev.shares = 0 THEN db
    ELSE InsertTransaction(db, ev,
             TransactionRow(ev, "MetaMorphoDeposit", ev.owner, ev.sender, Null, Null,
                            ev.shares, ev.assets))

WithdrawHandler(db, ev) ==
    IF ev.shares = 0 THEN db
    ELSE InsertTransaction(db, ev,
             TransactionRow(ev, "MetaMorphoWithdraw", ev.owner, ev.sender, ev.receiver,
                            Null, ev.shares, ev.assets))

(***************************************************************************)
(* MetaMorpho:AccrueInterest, ReallocateSupply and ReallocateWithdraw      *)
(***************************************************************************)
\* await context.client.readContract(...): one call, whose answer is the first
\* of the answers the node gives to the calls made for the event
readContract(answers) == answers[1]

\* AccrueInterestHandler that records the fee against the owner of the vault
AccrueInterestToOwner(db, ev, conv) ==
    IF ev.feeShares = 0 THEN db
    ELSE IF ~Exists(db.vault, VaultKey(ev)) THEN db
    ELSE IF ~conv.ok THEN Throw(db, ContractCallError)
    ELSE InsertTransaction(db, ev,
             TransactionRow(ev, "MetaMorphoFee", db.vault[VaultKey(ev)].owner,
                            zeroAddress, Null, Null, ev.feeShares, conv.assets))

\* conv is what convertToAssets answers
AccrueInterestHandler(db, ev, conv) ==
    IF ev.feeShares = 0 THEN db
    ELSE IF ~Exists(db.vault, VaultKey(ev)) THEN db
    ELSE IF ~conv.ok THEN Throw(db, ContractCallError)
    ELSE InsertTransaction(db, ev,
             TransactionRow(ev, "MetaMorphoFee", db.vault[VaultKey(ev)].feeRecipient,
                            zeroAddress, Null, Null, ev.feeShares, conv.assets))

ReallocateSupplyHandler(db, ev) ==
    InsertTransaction(db, ev,
        TransactionRow(ev, "VaultReallocateSupply", ev.caller, ev.caller, Null, ev.id,
                       ev.suppliedShares, ev.suppliedAssets))

ReallocateWithdrawHandler(db, ev) ==
    InsertTransaction(db, ev,
        TransactionRow(ev, "VaultReallocateWithdraw", ev.caller, ev.caller, Null, ev.id,
                       ev.withdrawnShares, ev.withdrawnAssets))

(***************************************************************************)
(* More handlers that update the vault row.                                *)
(***************************************************************************)
SetCuratorHandler(db, ev) ==
    UpdateVault(db, VaultKey(ev), [curator |-> ev.newCurator])

SetFeeHandler(db, ev) ==
    UpdateVault(db, VaultKey(ev), [fee |-> ev.newFee])

SetGuardianHandler(db, ev) ==
    UpdateVault(db, VaultKey(ev),
                [guardian |-> ev.guardian, pendingGuardian |-> zeroAddress,
                 pendingGuardianValidAt |-> 0])

InSeq(x, seq) == \E i \in DOMAIN seq : seq[i] = x

\* SetAllocator on the array itself: an added address is appended
SetAllocatorAppends(allocators, allocator, isAllocator) ==
    IF isAllocator THEN Append(allocators, allocator)
    ELSE SelectSeq(allocators, LAMBDA x : x # allocator)

\* [...set] after set.add(allocator) or set.delete(allocator)
SetAllocator(allocators, allocator, isAllocator) ==
    IF isAllocator
    THEN IF InSeq(allocator, allocators) THEN allocators ELSE Append(allocators, allocator)
    ELSE SelectSeq(allocators, LAMBDA x : x # allocator)

SetIsAllocatorHandler(db, ev) ==
    IF Exists(db.vault, VaultKey(ev))
    THEN [db EXCEPT !.vault[VaultKey(ev)].allocators =
              SetAllocator(@, ev.allocator, ev.isAllocator)]
    ELSE Throw(db, RecordNotFoundError("vault"))

(***************************************************************************)
(* The per-market configuration: caps and market removals.                 *)
(***************************************************************************)
ConfigKey(ev) == <<ev.chainId, ev.address, ev.id>>

\* the column the inserts of vaultConfigItem do not set takes the schema's default
ConfigItemDefaults == [cap |-> 0]

\* (await context.db.find(vault, key)) ?? { timelock: 0n }
TimelockOf(db, ev) ==
    IF Exists(db.vault, VaultKey(ev)) THEN db.vault[VaultKey(ev)].timelock ELSE 0

\* context.db.insert(table).values(row).onConflictDoUpdate(values)
Upsert(table, key, row, values) ==
    IF Exists(table, key) THEN [table EXCEPT ![key] = values @@ @]
    ELSE Put(table, key, row)

\* context.db.update(vaultConfigItem, key).set(values): throws when there is no row
UpdateConfigItem(db, key, values) ==
    IF Exists(db.vaultConfigItem, key)
    THEN [db EXCEPT !.vaultConfigItem[key] = values @@ @]
    ELSE Throw(db, RecordNotFoundError("vaultConfigItem"))

\* SubmitCapHandler that takes the block time as the time the cap is valid at
SubmitCapIgnoresTimelock(db, ev) ==
    [db EXCEPT !.vaultConfigItem =
         Upsert(@, ConfigKey(ev),
                [pendingCap |-> ev.cap, pendingCapValidAt |-> ev.timestamp,
                 enabled |-> FALSE, removableAt |-> 0] @@ ConfigItemDefaults,
                [pendingCap |-> ev.cap, pendingCapValidAt |-> ev.timestamp])]

SubmitCapHandler(db, ev) ==
    LET timelock == TimelockOf(db, ev)
    IN  [db EXCEPT !.vaultConfigItem =
             Upsert(@, ConfigKey(ev),
                    [pendingCap |-> ev.cap,
                     pendingCapValidAt |-> ev.timestamp + timelock,
                     enabled |-> FALSE, removableAt |-> 0] @@ ConfigItemDefaults,
                    [pendingCap |-> ev.cap,
                     pendingCapValidAt |-> ev.timestamp + timelock])]

SubmitMarketRemovalHandler(db, ev) ==
    LET timelock == TimelockOf(db, ev)
    IN  UpdateConfigItem(db, ConfigKey(ev), [removableAt |-> ev.timestamp + timelock])

\* RevokePendingCapHandler as an update of a row that has to exist
RevokePendingCapRequiresRow(db, ev) ==
    UpdateConfigItem(db, ConfigKey(ev), [pendingCap |-> 0, pendingCapValidAt |-> 0])

RevokePendingCapHandler(db, ev) ==
    [db EXCEPT !.vaultConfigItem =
         Upsert(@, ConfigKey(ev),
                [pendingCap |-> 0, pendingCapValidAt |-> 0,
                 enabled |-> FALSE, removableAt |-> 0] @@ ConfigItemDefaults,
                [pendingCap |-> 0, pendingCapValidAt |-> 0])]

RevokePendingMarketRemovalHandler(db, ev) ==
    [db EXCEPT !.vaultConfigItem =
         Upsert(@, ConfigKey(ev),
                [pendingCap |-> 0, pendingCapValidAt |-> 0,
                 enabled |-> FALSE, removableAt |-> 0] @@ ConfigItemDefaults,
                [removableAt |-> 0])]

\* SetCapHandler without the columns a positive cap sets
SetCapKeepsEnabled(db, ev) ==
    UpdateConfigItem(db, ConfigKey(ev),
                     [cap |-> ev.cap, pendingCap |-> 0, pendingCapValidAt |-> 0])

\* SetCapHandler that disables the market when the cap is 0
SetCapZeroDisables(db, ev) ==
    UpdateConfigItem(db, ConfigKey(ev),
                     [cap |-> ev.cap, pendingCap |-> 0, pendingCapValidAt |-> 0,
                      enabled |-> ev.cap > 0, removableAt |-> 0])

\* SetCapHandler that inserts the row when the market has none
SetCapUpserts(db, ev) ==
    [db EXCEPT !.vaultConfigItem =
         Upsert(@, ConfigKey(ev),
                [cap |-> ev.cap, pendingCap |-> 0, pendingCapValidAt |-> 0,
                 enabled |-> ev.cap > 0, removableAt |-> 0],
                IF ev.cap > 0
                THEN [cap |-> ev.cap, pendingCap |-> 0, pendingCapValidAt |-> 0,
                      enabled |-> TRUE, removableAt |-> 0]
                ELSE [cap |-> ev.cap, pendingCap |-> 0, pendingCapValidAt |-> 0])]

SetCapHandler(db, ev) ==
    UpdateConfigItem(db, ConfigKey(ev),
                     IF ev.cap > 0
                     THEN [cap |-> ev.cap, pendingCap |-> 0, pendingCapValidAt |-> 0,
                           enabled |-> TRUE, removableAt |-> 0]
                     ELSE [cap |-> ev.cap, pendingCap |-> 0, pendingCapValidAt |-> 0])

(***************************************************************************)
(* The pending guardian and the pending timelock of the vault row.         *)
(***************************************************************************)
\* SubmitGuardianHandler that puts the new guardian in force at once
SubmitGuardianSetsGuardian(db, ev) ==
    UpdateVault(db, VaultKey(ev),
                [guardian |-> ev.newGuardian, pendingGuardian |-> ev.newGuardian,
                 pendingGuardianValidAt |-> ev.timestamp + TimelockOf(db, ev)])

SubmitGuardianHandler(db, ev) ==
    UpdateVault(db, VaultKey(ev),
                [pendingGuardian |-> ev.newGuardian,
                 pendingGuardianValidAt |-> ev.timestamp + TimelockOf(db, ev)])

RevokePendingGuardianHandler(db, ev) ==
    UpdateVault(db, VaultKey(ev),
                [pendingGuardian |-> zeroAddress, pendingGuardianValidAt |-> 0])

\* SubmitTimelockHandler that waits for the new timelock, not for the stored one
SubmitTimelockUsesNew(db, ev) ==
    UpdateVault(db, VaultKey(ev),
                [pendingTimelock |-> ev.newTimelock,
                 pendingTimelockValidAt |-> ev.timestamp + ev.newTimelock])

SubmitTimelockHandler(db, ev) ==
    UpdateVault(db, VaultKey(ev),
                [pendingTimelock |-> ev.newTimelock,
                 pendingTimelockValidAt |-> ev.timestamp + TimelockOf(db, ev)])

RevokePendingTimelockHandler(db, ev) ==
    UpdateVault(db, VaultKey(ev),
                [pendingTimelock |-> 0, pendingTimelockValidAt |-> 0])

(***************************************************************************)
(* Handlers that set one more column of the vault row.                     *)
(***************************************************************************)
OwnershipTransferStartedHandler(db, ev) ==
    UpdateVault(db, VaultKey(ev), [pendingOwner |-> ev.newOwner])

SetSkimRecipientHandler(db, ev) ==
    UpdateVault(db, VaultKey(ev), [skimRecipient |-> ev.newSkimRecipient])

UpdateLastTotalAssetsHandler(db, ev) ==
    UpdateVault(db, VaultKey(ev), [lastTotalAssets |-> ev.updatedTotalAssets])

UpdateLostAssetsHandler(db, ev) ==
    UpdateVault(db, VaultKey(ev), [lostAssets |-> ev.newLostAssets])

(***************************************************************************)
(* MetaMorpho:SetSupplyQueue and MetaMorpho:SetWithdrawQueue               *)
(***************************************************************************)
\* getQueueItems with the length of the new queue only
getQueueItemsOfNewQueue(chainId, address, oldLength, newQueue) ==
    [i \in 1..Len(newQueue) |->
        [chainId |-> chainId, address |-> address, ordinal |-> i - 1,
         marketId |-> newQueue[i]]]

\* the item of ordinal i - 1 is the i-th element of the array
getQueueItems(chainId, address, oldLength, newQueue) ==
    [i \in 1..Max(oldLength, Len(newQueue)) |->
        [chainId |-> chainId, address |-> address, ordinal |-> i - 1,
         marketId |-> IF i <= Len(newQueue) THEN newQueue[i] ELSE Null]]

QueueItemKey(item) == <<item.chainId, item.address, item.ordinal>>

\* values.at(ordinal)?.marketId ?? null
MarketIdAt(values, ordinal) ==
    IF ordinal + 1 \in DOMAIN values THEN values[ordinal + 1].marketId ELSE Null

\* context.db.insert(table).values(values)
\*   .onConflictDoUpdate((row) => ({ marketId: values.at(row.ordinal)?.marketId ?? null }))
UpsertQueueItems(table, values) ==
    LET keys == {QueueItemKey(values[i]) : i \in DOMAIN values}
        valueOf(k) == values[CHOOSE i \in DOMAIN values : QueueItemKey(values[i]) = k]
    IN  [k \in DOMAIN table \cup keys |->
            IF k \notin keys THEN table[k]
            ELSE IF k \in DOMAIN table THEN [marketId |-> MarketIdAt(values, k[3])]
            ELSE [marketId |-> valueOf(k).marketId]]

\* SetSupplyQueueHandler that writes the length of the withdraw queue as well
SetSupplyQueueSetsBoth(db, ev, itemsOk) ==
    LET vk == VaultKey(ev)
    IN  IF ~Exists(db.vault, vk) THEN Throw(db, RecordNotFoundError("vault"))
        ELSE LET length == db.vault[vk].supplyQueueLength
                 updated == [db EXCEPT !.vault[vk].supplyQueueLength =
                                           Len(ev.newSupplyQueue),
                                       !.vault[vk].withdrawQueueLength =
                                           Len(ev.newSupplyQueue)]
                 values == getQueueItems(ev.chainId, ev.address, length,
                                         ev.newSupplyQueue)
             IN  IF ~itemsOk THEN Throw(updated, StoreError)
                 ELSE [updated EXCEPT !.vaultSupplyQueueItem =
                                          UpsertQueueItems(@, values)]

\* itemsOk: the store accepts the write of the queue items
SetSupplyQueueHandler(db, ev, itemsOk) ==
    LET vk == VaultKey(ev)
    IN  IF ~Exists(db.vault, vk) THEN Throw(db, RecordNotFoundError("vault"))
        ELSE LET length == db.vault[vk].supplyQueueLength
                 updated == [db EXCEPT !.vault[vk].supplyQueueLength =
                                           Len(ev.newSupplyQueue)]
                 values == getQueueItems(ev.chainId, ev.address, length,
                                         ev.newSupplyQueue)
             IN  IF ~itemsOk THEN Throw(updated, StoreError)
                 ELSE [updated EXCEPT !.vaultSupplyQueueItem =
                                          UpsertQueueItems(@, values)]

SetWithdrawQueueHandler(db, ev, itemsOk) ==
    LET vk == VaultKey(ev)
    IN  IF ~Exists(db.vault, vk) THEN Throw(db, RecordNotFoundError("vault"))
        ELSE LET length == db.vault[vk].withdrawQueueLength
                 updated == [db EXCEPT !.vault[vk].withdrawQueueLength =
                                           Len(ev.newWithdrawQueue)]
                 values == getQueueItems(ev.chainId, ev.address, length,
                                         ev.newWithdrawQueue)
             IN  IF ~itemsOk THEN Throw(updated, StoreError)
                 ELSE [updated EXCEPT !.vaultWithdrawQueueItem =
                                          UpsertQueueItems(@, values)]

(***************************************************************************)
(* The events the delivery substrate hands to the handlers.                *)
(***************************************************************************)
Chains == {1}

VaultAddrs == {"v1"}

Timestamps == {1}

\* what the read-only call convertToAssets answers: it fails, or an amount
ConvertResults ==
    {[ok |-> FALSE, assets |-> 0]} \cup {[ok |-> TRUE, assets |-> x] : x \in {2}}

\* the answers of the node to the successive calls of convertToAssets
Answers == [1..MaxCalls -> ConvertResults]

CreateEvents ==
    [kind : {"CreateMetaMorpho"}, chainId : Chains, address : VaultAddrs,
     asset : {"usdc"}, decimalsUnderlying : {6}, initialOwner : {"a"},
     initialTimelock : {0}, name : {"n1"}, symbol : {"s1"}]

SetFeeRecipientEvents ==
    [kind : {"SetFeeRecipient"}, chainId : Chains, address : VaultAddrs,
     newFeeRecipient : Users]

TransfersOf(values) ==
    [kind : {"Transfer"}, chainId : Chains, address : VaultAddrs, hash : LogIds,
     logIndex : {0}, blockNumber : {1}, timestamp : Timestamps,
     from : Addresses, to : Addresses, value : values]

TransferEvents == TransfersOf(Values)

DepositEvents ==
    [kind : {"Deposit"}, chainId : Chains, address : VaultAddrs, hash : LogIds,
     logIndex : {0}, blockNumber : {1}, timestamp : Timestamps,
     sender : {"b"}, owner : Users, assets : {0, 1}, shares : {0, 1}]

WithdrawEvents ==
    [kind : {"Withdraw"}, chainId : Chains, address : VaultAddrs, hash : LogIds,
     logIndex : {0}, blockNumber : {1}, timestamp : Timestamps,
     sender : {"b"}, receiver : {"b"}, owner : Users, assets : {0, 1}, shares : {0, 1}]

MarketIds == {"m1", "m2"}

AccrueInterestEvents ==
    [kind : {"AccrueInterest"}, chainId : Chains, address : VaultAddrs, hash : LogIds,
     logIndex : {0}, blockNumber : {1}, timestamp : Timestamps, feeShares : {0, 1}]

ReallocateSupplyEvents ==
    [kind : {"ReallocateSupply"}, chainId : Chains, address : VaultAddrs, hash : LogIds,
     logIndex : {0}, blockNumber : {1}, timestamp : Timestamps, caller : {"a"},
     id : {"m1"}, suppliedAssets : {0, 1}, suppliedShares : {0, 1}]

ReallocateWithdrawEvents ==
    [kind : {"ReallocateWithdraw"}, chainId : Chains, address : VaultAddrs, hash : LogIds,
     logIndex : {0}, blockNumber : {1}, timestamp : Timestamps, caller : {"a"},
     id : {"m1"}, withdrawnAssets : {0, 1}, withdrawnShares : {0, 1}]

SetCuratorEvents ==
    [kind : {"SetCurator"}, chainId : Chains, address : VaultAddrs, newCurator : Users]

SetFeeEvents ==
    [kind : {"SetFee"}, chainId : Chains, address : VaultAddrs, newFee : {1}]

SetGuardianEvents ==
    [kind : {"SetGuardian"}, chainId : Chains, address : VaultAddrs, guardian : Users]

SetIsAllocatorEvents ==
    [kind : {"SetIsAllocator"}, chainId : Chains, address : VaultAddrs,
     allocator : Users, isAllocator : BOOLEAN]

\* the block time of the events of the configuration lifecycle
ConfigTimes == {2}

ConfigCreateEvents ==
    [kind : {"CreateMetaMorpho"}, chainId : Chains, address : VaultAddrs,
     asset : {"usdc"}, decimalsUnderlying : {6}, initialOwner : {"a"},
     initialTimelock : {1, 2}, name : {"n1"}, symbol : {"s1"}]

SubmitCapEvents ==
    [kind : {"SubmitCap"}, chainId : Chains, address : VaultAddrs, id : MarketIds,
     cap : {1, 2}, timestamp : ConfigTimes]

SetCapEvents ==
    [kind : {"SetCap"}, chainId : Chains, address : VaultAddrs, id : MarketIds,
     cap : {0, 1}]

RevokePendingCapEvents ==
    [kind : {"RevokePendingCap"}, chainId : Chains, address : VaultAddrs, id : MarketIds]

SubmitMarketRemovalEvents ==
    [kind : {"SubmitMarketRemoval"}, chainId : Chains, address : VaultAddrs,
     id : MarketIds, timestamp : ConfigTimes]

RevokePendingMarketRemovalEvents ==
    [kind : {"RevokePendingMarketRemoval"}, chainId : Chains, address : VaultAddrs,
     id : MarketIds]

\* the queues of at most MaxQueueLen markets
Queues == UNION {[1..n -> MarketIds] : n \in 0..MaxQueueLen}

SetSupplyQueueEvents ==
    [kind : {"SetSupplyQueue"}, chainId : Chains, address : VaultAddrs,
     newSupplyQueue : Queues]

SetWithdrawQueueEvents ==
    [kind : {"SetWithdrawQueue"}, chainId : Chains, address : VaultAddrs,
     newWithdrawQueue : Queues]

SubmitGuardianEvents ==
    [kind : {"SubmitGuardian"}, chainId : Chains, address : VaultAddrs,
     newGuardian : Users, timestamp : ConfigTimes]

RevokePendingGuardianEvents ==
    [kind : {"RevokePendingGuardian"}, chainId : Chains, address : VaultAddrs]

\* the new timelocks differ from every timelock a vault row can hold
SubmitTimelockEvents ==
    [kind : {"SubmitTimelock"}, chainId : Chains, address : VaultAddrs,
     newTimelock : {0, 3}, timestamp : ConfigTimes]

RevokePendingTimelockEvents ==
    [kind : {"RevokePendingTimelock"}, chainId : Chains, address : VaultAddrs]

OwnershipTransferStartedEvents ==
    [kind : {"OwnershipTransferStarted"}, chainId : Chains, address : VaultAddrs,
     newOwner : {"b"}]

SetSkimRecipientEvents ==
    [kind : {"SetSkimRecipient"}, chainId : Chains, address : VaultAddrs,
     newSkimRecipient : {"b"}]

UpdateLastTotalAssetsEvents ==
    [kind : {"UpdateLastTotalAssets"}, chainId : Chains, address : VaultAddrs,
     updatedTotalAssets : {1}]

UpdateLostAssetsEvents ==
    [kind : {"UpdateLostAssets"}, chainId : Chains, address : VaultAddrs,
     newLostAssets : {1}]

IsPureTransfer(ev) == ev.value # 0 /\ ev.from # zeroAddress /\ ev.to # zeroAddress

\* the orders of the two balance writes a Transfer event can run in: the order
\* matters only when both writes are on the same row
Schedules(ev) ==
    IF IsPureTransfer(ev) /\ ev.from = ev.to THEN Interleavings
    ELSE {<<<<1, "read">>, <<1, "write">>, <<2, "read">>, <<2, "write">>>>}

\* the answers of convertToAssets a Transfer event can get
Conversions(ev) ==
    IF IsPureTransfer(ev) THEN ConvertResults ELSE {[ok |-> TRUE, assets |-> 0]}

(***************************************************************************)
(* ponder.config.ts: the chains a selector names.                          *)
(*                                                                         *)
(* A string is the sequence of its tokens: a token is "," or " " or a word. *)
(* No two tokens put together spell a key of tiers, of chains or of         *)
(* Object.prototype, so a string is such a key only if it is one word.      *)
(***************************************************************************)
\* Object.keys(chains)
ChainNames ==
    <<"mainnet", "base", "unichain", "polygon", "katana", "arbitrum", "tac",
      "abstract", "botanix", "celo", "etherlink", "fraxtal", "hemi", "hyperevm",
      "ink", "lisk", "mode", "monad", "optimism", "plume", "scroll", "sei",
      "soneium", "sonic", "stable", "worldchain", "zircuit">>

TIER_1 == <<"mainnet", "base", "unichain", "katana", "arbitrum", "hyperevm", "monad">>

TIER_2 == <<"celo", "hemi", "lisk", "optimism", "plume", "soneium", "tac", "worldchain">>

TIER_3 == <<"sei", "polygon", "botanix">>

Items(seq) == {seq[i] : i \in DOMAIN seq}

\* the items of a that are in none of the arrays bs, in the order of a
setDifference(a, bs) ==
    SelectSeq(a, LAMBDA item : \A i \in DOMAIN bs : item \notin Items(bs[i]))

TIER_4 == setDifference(ChainNames, <<TIER_1, TIER_2, TIER_3>>)

tiers == [t \in {"1", "2", "3", "4", "all"} |->
             CASE t = "1" -> TIER_1
               [] t = "2" -> TIER_2
               [] t = "3" -> TIER_3
               [] t = "4" -> TIER_4
               [] t = "all" -> ChainNames]

\* the properties every object literal inherits from Object.prototype
ObjectPrototypeKeys ==
    {"constructor", "hasOwnProperty", "isPrototypeOf", "propertyIsEnumerable",
     "toLocaleString", "toString", "valueOf", "__proto__", "__defineGetter__",
     "__defineSetter__", "__lookupGetter__", "__lookupSetter__"}

\* key in object: own keys and inherited ones
In(part, ownKeys) ==
    Len(part) = 1 /\ part[1] \in ownKeys \cup ObjectPrototypeKeys

\* selector.split(",")
RECURSIVE split(_, _)
split(str, part) ==
    IF str = <<>> THEN <<part>>
    ELSE IF Head(str) = "," THEN <<part>> \o split(Tail(str), <<>>)
    ELSE split(Tail(str), Append(part, Head(str)))

\* s.trim()
RECURSIVE trim(_)
trim(str) ==
    IF str = <<>> THEN str
    ELSE IF Head(str) = " " THEN trim(Tail(str))
    ELSE IF str[Len(str)] = " " THEN trim(SubSeq(str, 1, Len(str) - 1))
    ELSE str

\* selector.split(",").map((s) => s.trim())
Parts(str) == LET raw == split(str, <<>>) IN [i \in DOMAIN raw |-> trim(raw[i])]

\* for (const chain of chainNames) result.add(chain): a Set keeps the order of
\* the first insertions
AddAll(result, chainNames) ==
    LET isNew(i) == /\ chainNames[i] \notin Items(result)
                    /\ \A j \in 1..(i - 1) : chainNames[j] # chainNames[i]
        added == SelectSeq([i \in DOMAIN chainNames |-> i], isNew)
    IN  result \o [k \in DOMAIN added |-> chainNames[added[k]]]

\* throw new Error(`Invalid chain selector: "${part}". Must be ...`)
InvalidChainSelector(part) ==
    [type |-> "Error", message |-> "Invalid chain selector", part |-> part]

\* for (const chain of tierChains) on a value that is no array
NotIterable(part) ==
    [type |-> "TypeError", message |-> "tierChains is not iterable", part |-> part]

\* the body of the loop over the parts, from the part i on
RECURSIVE ParseParts(_, _, _)
ParseParts(parts, i, result) ==
    IF i > Len(parts) THEN [error |-> NoError, chains |-> result]
    ELSE LET part == parts[i]
         IN  IF In(part, DOMAIN tiers)
             THEN IF part[1] \in DOMAIN tiers
                  THEN ParseParts(parts, i + 1, AddAll(result, tiers[part[1]]))
                  ELSE [error |-> NotIterable(part), chains |-> <<>>]
             ELSE IF In(part, Items(ChainNames))
             THEN ParseParts(parts, i + 1, AddAll(result, part))
             ELSE [error |-> InvalidChainSelector(part), chains |-> <<>>]

parseChainSelector(str) == ParseParts(Parts(str), 1, <<>>)

\* the tokens of the selectors
Tokens == {",", " ", "1", "3", "all", "mainnet", "sei", "bogus", "toString"}

\* process.env.TIER_TO_INDEX ?? "all"
DefaultSelector == <<"all">>

\* parseChainSelector has not been called: it has returned nothing
NotParsed == <<>>

(***************************************************************************)
(* The state machine.                                                      *)
(***************************************************************************)
Init ==
    /\ vault = <<>>
    /\ vaultBalance = <<>>
    /\ transaction = <<>>
    /\ vaultConfigItem = <<>>
    /\ vaultSupplyQueueItem = <<>>
    /\ vaultWithdrawQueueItem = <<>>
    /\ last = [ev |-> [kind |-> "none"], error |-> NoError]
    /\ nEvents = 0
    /\ selector = DefaultSelector
    /\ parsed = NotParsed

\* after an event that ended in an error the substrate halts, or delivers the
\* same event again
CanDeliver(ev) == last.error = NoError \/ ev = last.ev

\* one event is handed to its handler, which leaves the tables as in db;
\* delivered records the event, the error and the answers of the node
DeliverAs(ev, db, delivered) ==
    /\ CanDeliver(ev)
    /\ vault' = db.vault
    /\ vaultBalance' = db.vaultBalance
    /\ transaction' = db.transaction
    /\ vaultConfigItem' = db.vaultConfigItem
    /\ vaultSupplyQueueItem' = db.vaultSupplyQueueItem
    /\ vaultWithdrawQueueItem' = db.vaultWithdrawQueueItem
    /\ last' = delivered
    /\ nEvents' = nEvents + 1
    /\ UNCHANGED <<selector, parsed>>

Deliver(ev, db) == DeliverAs(ev, db, [ev |-> ev, error |-> db.error])

CreateMetaMorpho(ev) == Deliver(ev, CreateMetaMorphoHandler(Db, ev))

SetFeeRecipient(ev) == Deliver(ev, SetFeeRecipientHandler(Db, ev))

Transfer(ev) ==
    \E sched \in Schedules(ev), conv \in Conversions(ev) :
        Deliver(ev, TransferHandler(Db, ev, sched, conv))

Deposit(ev) == Deliver(ev, DepositHandler(Db, ev))

Withdraw(ev) == Deliver(ev, WithdrawHandler(Db, ev))

OwnershipTransferred(ev) == Deliver(ev, OwnershipTransferredHandler(Db, ev))

SetName(ev) == Deliver(ev, SetNameHandler(Db, ev))

SetSymbol(ev) == Deliver(ev, SetSymbolHandler(Db, ev))

SetTimelock(ev) == Deliver(ev, SetTimelockHandler(Db, ev))

AccrueInterest(ev) ==
    \E answers \in Answers :
        LET db == AccrueInterestHandler(Db, ev, readContract(answers))
        IN  DeliverAs(ev, db, [ev |-> ev, error |-> db.error, answers |-> answers])

ReallocateSupply(ev) == Deliver(ev, ReallocateSupplyHandler(Db, ev))

ReallocateWithdraw(ev) == Deliver(ev, ReallocateWithdrawHandler(Db, ev))

SetCurator(ev) == Deliver(ev, SetCuratorHandler(Db, ev))

SetFee(ev) == Deliver(ev, SetFeeHandler(Db, ev))

SetGuardian(ev) == Deliver(ev, SetGuardianHandler(Db, ev))

SetIsAllocator(ev) == Deliver(ev, SetIsAllocatorHandler(Db, ev))

SubmitCap(ev) == Deliver(ev, SubmitCapHandler(Db, ev))

SubmitMarketRemoval(ev) == Deliver(ev, SubmitMarketRemovalHandler(Db, ev))

RevokePendingCap(ev) == Deliver(ev, RevokePendingCapHandler(Db, ev))

RevokePendingMarketRemoval(ev) == Deliver(ev, RevokePendingMarketRemovalHandler(Db, ev))

SetCap(ev) == Deliver(ev, SetCapHandler(Db, ev))

SubmitGuardian(ev) == Deliver(ev, SubmitGuardianHandler(Db, ev))

RevokePendingGuardian(ev) == Deliver(ev, RevokePendingGuardianHandler(Db, ev))

SubmitTimelock(ev) == Deliver(ev, SubmitTimelockHandler(Db, ev))

RevokePendingTimelock(ev) == Deliver(ev, RevokePendingTimelockHandler(Db, ev))

OwnershipTransferStarted(ev) == Deliver(ev, OwnershipTransferStartedHandler(Db, ev))

SetSkimRecipient(ev) == Deliver(ev, SetSkimRecipientHandler(Db, ev))

UpdateLastTotalAssets(ev) == Deliver(ev, UpdateLastTotalAssetsHandler(Db, ev))

UpdateLostAssets(ev) == Deliver(ev, UpdateLostAssetsHandler(Db, ev))

\* outcomes: whether the store accepts the write of the queue items
SetSupplyQueue(ev, outcomes) ==
    \E itemsOk \in outcomes : Deliver(ev, SetSupplyQueueHandler(Db, ev, itemsOk))

SetWithdrawQueue(ev, outcomes) ==
    \E itemsOk \in outcomes : Deliver(ev, SetWithdrawQueueHandler(Db, ev, itemsOk))

\* the share ledger: vault creation and the share token's Transfer events
Next ==
    \/ nEvents < MaxEvents /\ \E ev \in CreateEvents : CreateMetaMorpho(ev)
    \/ nEvents < MaxEvents /\ \E ev \in TransferEvents : Transfer(ev)

Spec == Init /\ [][Next]_vars

(***************************************************************************)
(* Properties of the share ledger.                                         *)
(***************************************************************************)
LastIs(kind) == last.ev.kind = kind

Succeeded == last.error = NoError

\* the event of the step being taken
IsMint(ev) == ev.kind = "Transfer" /\ ev.value > 0 /\ ev.from = zeroAddress

IsBurn(ev) ==
    ev.kind = "Transfer" /\ ev.value > 0 /\ ev.from # zeroAddress /\ ev.to = zeroAddress

IsPure(ev) == ev.kind = "Transfer" /\ IsPureTransfer(ev)

RECURSIVE SumOver(_, _)
SumOver(table, keys) ==
    IF keys = {} THEN 0
    ELSE LET k == CHOOSE x \in keys : TRUE
         IN  table[k].shares + SumOver(table, keys \ {k})

\* the sum of the shares of the holders of the vault with key vk
SumShares(vk) ==
    SumOver(vaultBalance, {k \in DOMAIN vaultBalance : <<k[1], k[2]>> = vk})

\* C1: for every vault, the shares of its holders sum to its totalSupply.
SharesSumToTotalSupply ==
    \A vk \in DOMAIN vault : SumShares(vk) = vault[vk].totalSupply

\* C2: a Transfer event that ends in an error leaves none of its writes applied.
TransferIsAtomic ==
    [][(last'.ev.kind = "Transfer" /\ last'.error # NoError)
         => (vault' = vault /\ vaultBalance' = vaultBalance)]_vars

\* C3: no stored shares value and no stored totalSupply is negative.
SharesNeverNegative ==
    /\ \A k \in DOMAIN vaultBalance : vaultBalance[k].shares >= 0
    /\ \A vk \in DOMAIN vault : vault[vk].totalSupply >= 0

\* C4: delivering again a Transfer event that was processed changes no table.
RedeliveryChangesNothing ==
    [][(last.ev.kind = "Transfer" /\ last.error = NoError /\ last'.ev = last.ev)
         => tables' = tables]_vars

\* the vaultBalance table with val more shares for key bk, inserted when absent
Credited(table, bk, val) ==
    IF bk \in DOMAIN table THEN [table EXCEPT ![bk] = [shares |-> @.shares + val]]
    ELSE Put(table, bk, [shares |-> val])

\* C5: a mint of v > 0 on an existing vault adds v to totalSupply and to the
\* recipient's shares (a new row holds v); no other row changes.
MintEffect ==
    [][(IsMint(last'.ev) /\ VaultKey(last'.ev) \in DOMAIN vault)
         => LET ev == last'.ev
                vk == VaultKey(ev)
            IN  /\ vault' = [vault EXCEPT ![vk].totalSupply = vault[vk].totalSupply + ev.value]
                /\ vaultBalance' = Credited(vaultBalance, BalanceKey(ev, ev.to), ev.value)
                /\ last'.error = NoError]_vars

MintWitness ==
    /\ IsMint(last.ev) /\ Succeeded
    /\ VaultKey(last.ev) \in DOMAIN vault
    /\ vaultBalance[BalanceKey(last.ev, last.ev.to)].shares > last.ev.value

\* C6: a burn of v > 0 takes v from totalSupply (when the vault row exists) and v
\* from the sender's shares (when the sender has a row); it creates no row, for
\* the zero address or any other, and changes no other row.
BurnEffect ==
    [][IsBurn(last'.ev)
         => LET ev == last'.ev
                vk == VaultKey(ev)
                bk == BalanceKey(ev, ev.from)
            IN  /\ vault' = IF vk \in DOMAIN vault
                             THEN [vault EXCEPT ![vk].totalSupply = vault[vk].totalSupply - ev.value]
                             ELSE vault
                /\ vaultBalance' = IF bk \in DOMAIN vaultBalance
                                    THEN [vaultBalance EXCEPT
                                            ![bk] = [shares |-> vaultBalance[bk].shares - ev.value]]
                                    ELSE vaultBalance
                /\ (vk \in DOMAIN vault /\ bk \in DOMAIN vaultBalance) => last'.error = NoError]_vars

BurnWitness ==
    /\ IsBurn(last.ev) /\ Succeeded
    /\ VaultKey(last.ev) \in DOMAIN vault
    /\ vault[VaultKey(last.ev)].totalSupply = 1
    /\ vaultBalance[BalanceKey(last.ev, last.ev.from)].shares = 1
    /\ BalanceKey(last.ev, zeroAddress) \notin DOMAIN vaultBalance

\* C7: a pure transfer of v > 0 from a holder that has a row takes v from the
\* sender's shares, adds v to the recipient's (a new row holds v) and leaves
\* totalSupply unchanged.
PureTransferEffect ==
    [][(IsPure(last'.ev) /\ BalanceKey(last'.ev, last'.ev.from) \in DOMAIN vaultBalance)
         => LET ev == last'.ev
                from == BalanceKey(ev, ev.from)
                debited == [vaultBalance EXCEPT
                              ![from] = [shares |-> vaultBalance[from].shares - ev.value]]
            IN  /\ vaultBalance' = Credited(debited, BalanceKey(ev, ev.to), ev.value)
                /\ vault' = vault]_vars

(***************************************************************************)
(* The transaction recorder: zero amounts.                                 *)
(***************************************************************************)
NextRecorder ==
    \/ nEvents < MaxEvents /\ \E ev \in CreateEvents : CreateMetaMorpho(ev)
    \/ nEvents < MaxEvents /\ \E ev \in TransfersOf({0, 1}) : Transfer(ev)
    \/ nEvents < MaxEvents /\ \E ev \in DepositEvents : Deposit(ev)
    \/ nEvents < MaxEvents /\ \E ev \in WithdrawEvents : Withdraw(ev)

SpecRecorder == Init /\ [][NextRecorder]_vars

\* the amount a handler tests before it writes
IsZeroAmount(ev) ==
    \/ ev.kind = "Transfer" /\ ev.value = 0
    \/ ev.kind \in {"Deposit", "Withdraw"} /\ ev.shares = 0

\* C8: a Transfer of value 0, a Deposit of 0 shares and a Withdraw of 0 shares
\* change no table and raise no error.
ZeroAmountChangesNothing ==
    [][IsZeroAmount(last'.ev) => (tables' = tables /\ last'.error = NoError)]_vars

ZeroAmountWitness ==
    /\ LastIs("Withdraw") /\ last.ev.shares = 0 /\ last.ev.assets > 0
    /\ vaultBalance # <<>>
    /\ transaction # <<>>

(***************************************************************************)
(* The transaction recorder: fee distributions and plain transfers.        *)
(***************************************************************************)
NextFee ==
    \/ nEvents < MaxEvents /\ \E ev \in CreateEvents : CreateMetaMorpho(ev)
    \/ nEvents < MaxEvents /\ \E ev \in SetFeeRecipientEvents : SetFeeRecipient(ev)
    \/ nEvents < MaxEvents /\ \E ev \in TransfersOf({1}) : Transfer(ev)

SpecFee == Init /\ [][NextFee]_vars

\* C9: a pure transfer that is processed inserts one transaction row, of type
\* MetaMorphoFee when the recipient is the feeRecipient the vault row holds, of
\* type MetaMorphoTransfer otherwise; one that fails inserts none.
TransferClassified ==
    [][IsPure(last'.ev)
         => LET ev == last'.ev
                vk == VaultKey(ev)
                tk == TransactionKey(ev)
            IN  IF last'.error # NoError THEN transaction' = transaction
                ELSE /\ tk \notin DOMAIN transaction
                     /\ DOMAIN transaction' = DOMAIN transaction \cup {tk}
                     /\ \A k \in DOMAIN transaction : transaction'[k] = transaction[k]
                     /\ transaction'[tk].type =
                            IF vk \in DOMAIN vault /\ vault[vk].feeRecipient = ev.to
                            THEN "MetaMorphoFee" ELSE "MetaMorphoTransfer"]_vars

FeeWitness ==
    /\ IsPure(last.ev) /\ Succeeded
    /\ last.ev.from # last.ev.to
    /\ transaction[TransactionKey(last.ev)].type = "MetaMorphoFee"
    /\ vault[VaultKey(last.ev)].feeRecipient = last.ev.to

(***************************************************************************)
(* Events emitted in the vault's constructor.                              *)
(***************************************************************************)
CtorVaults == {"v1", "v2"}

CtorCreateEvents ==
    [kind : {"CreateMetaMorpho"}, chainId : Chains, address : CtorVaults,
     asset : {"usdc"}, decimalsUnderlying : {6, 18}, initialOwner : Users,
     initialTimelock : {0, 1}, name : {"n1"}, symbol : {"s1"}]

OwnershipTransferredEvents ==
    [kind : {"OwnershipTransferred"}, chainId : Chains, address : CtorVaults,
     newOwner : Users]

SetNameEvents ==
    [kind : {"SetName"}, chainId : Chains, address : CtorVaults, name : {"n2"}]

SetSymbolEvents ==
    [kind : {"SetSymbol"}, chainId : Chains, address : CtorVaults, symbol : {"s2"}]

SetTimelockEvents ==
    [kind : {"SetTimelock"}, chainId : Chains, address : CtorVaults, newTimelock : {0, 1}]

NextCtor ==
    \/ nEvents < MaxEvents /\ \E ev \in CtorCreateEvents : CreateMetaMorpho(ev)
    \/ nEvents < MaxEvents /\ \E ev \in OwnershipTransferredEvents : OwnershipTransferred(ev)
    \/ nEvents < MaxEvents /\ \E ev \in SetNameEvents : SetName(ev)
    \/ nEvents < MaxEvents /\ \E ev \in SetSymbolEvents : SetSymbol(ev)
    \/ nEvents < MaxEvents /\ \E ev \in SetTimelockEvents : SetTimelock(ev)

SpecCtor == Init /\ [][NextCtor]_vars

TolerantKinds == {"OwnershipTransferred", "SetName", "SetSymbol", "SetTimelock"}

MintBurnEvents == {ev \in TransfersOf({1}) : ev.from = zeroAddress \/ ev.to = zeroAddress}

NextVault ==
    \/ nEvents < MaxEvents /\ \E ev \in CreateEvents : CreateMetaMorpho(ev)
    \/ nEvents < MaxEvents /\ \E ev \in SetCuratorEvents : SetCurator(ev)
    \/ nEvents < MaxEvents /\ \E ev \in SetFeeEvents : SetFee(ev)
    \/ nEvents < MaxEvents /\ \E ev \in SetFeeRecipientEvents : SetFeeRecipient(ev)
    \/ nEvents < MaxEvents /\ \E ev \in SetGuardianEvents : SetGuardian(ev)
    \/ nEvents < MaxEvents /\ \E ev \in SetIsAllocatorEvents : SetIsAllocator(ev)
    \/ nEvents < MaxEvents /\ \E ev \in SetSupplyQueueEvents : SetSupplyQueue(ev, {TRUE})
    \/ nEvents < MaxEvents /\ \E ev \in AccrueInterestEvents : AccrueInterest(ev)
    \/ nEvents < MaxEvents /\ \E ev \in MintBurnEvents : Transfer(ev)

SpecVault == Init /\ [][NextVault]_vars

\* the events whose handler reads or writes the vault row, the four events
\* emitted in the constructor apart
NeedsVaultRow(ev) ==
    \/ ev.kind \in {"SetCurator", "SetFee", "SetFeeRecipient", "SetGuardian",
                    "SetIsAllocator", "SetSupplyQueue"}
    \/ ev.kind = "AccrueInterest" /\ ev.feeShares > 0
    \/ IsMint(ev)
    \/ IsBurn(ev)

\* C11: an event that needs the vault row and finds none ends in an error.
MissingVaultSurfaced ==
    [][(NeedsVaultRow(last'.ev) /\ VaultKey(last'.ev) \notin DOMAIN vault)
         => last'.error # NoError]_vars

(***************************************************************************)
(* The configuration lifecycle of the markets of a vault.                  *)
(***************************************************************************)
NextConfig ==
    \/ nEvents < MaxEvents /\ \E ev \in ConfigCreateEvents : CreateMetaMorpho(ev)
    \/ nEvents < MaxEvents /\ \E ev \in SubmitCapEvents : SubmitCap(ev)
    \/ nEvents < MaxEvents /\ \E ev \in SetCapEvents : SetCap(ev)
    \/ nEvents < MaxEvents /\ \E ev \in RevokePendingCapEvents : RevokePendingCap(ev)
    \/ nEvents < MaxEvents /\ \E ev \in SubmitMarketRemovalEvents : SubmitMarketRemoval(ev)
    \/ nEvents < MaxEvents /\ \E ev \in RevokePendingMarketRemovalEvents :
                                  RevokePendingMarketRemoval(ev)

SpecConfig == Init /\ [][NextConfig]_vars

\* the timelock the vault row holds, 0 when the vault has no row
StoredTimelock(vk) == IF vk \in DOMAIN vault THEN vault[vk].timelock ELSE 0

\* the step changes at most the ConfigItem with key ck, which exists after it
OnlyConfigItem(ck) ==
    /\ DOMAIN vaultConfigItem' = DOMAIN vaultConfigItem \cup {ck}
    /\ \A k \in DOMAIN vaultConfigItem \ {ck} : vaultConfigItem'[k] = vaultConfigItem[k]
    /\ vault' = vault

\* C12: SubmitCap(id, cap) at block time t sets pendingCap = cap and
\* pendingCapValidAt = t + the stored timelock (0 without a vault row); a new
\* ConfigItem has enabled = false and removableAt = 0, a ConfigItem that exists
\* keeps its cap, enabled and removableAt.
SubmitCapEffect ==
    [][last'.ev.kind = "SubmitCap"
         => LET ev == last'.ev
                ck == ConfigKey(ev)
            IN  /\ last'.error = NoError
                /\ OnlyConfigItem(ck)
                /\ vaultConfigItem'[ck].pendingCap = ev.cap
                /\ vaultConfigItem'[ck].pendingCapValidAt =
                       ev.timestamp + StoredTimelock(VaultKey(ev))
                /\ IF ck \in DOMAIN vaultConfigItem
                   THEN /\ vaultConfigItem'[ck].cap = vaultConfigItem[ck].cap
                        /\ vaultConfigItem'[ck].enabled = vaultConfigItem[ck].enabled
                        /\ vaultConfigItem'[ck].removableAt = vaultConfigItem[ck].removableAt
                   ELSE /\ vaultConfigItem'[ck].enabled = FALSE
                        /\ vaultConfigItem'[ck].removableAt = 0]_vars

\* a cap submitted for an enabled market of a vault whose timelock is 2
SubmitCapWitness ==
    /\ LastIs("SubmitCap") /\ Succeeded
    /\ VaultKey(last.ev) \in DOMAIN vault
    /\ vault[VaultKey(last.ev)].timelock = 2
    /\ vaultConfigItem[ConfigKey(last.ev)].enabled
    /\ vaultConfigItem[ConfigKey(last.ev)].cap = 1
    /\ vaultConfigItem[ConfigKey(last.ev)].pendingCap = 2
    /\ vaultConfigItem[ConfigKey(last.ev)].pendingCapValidAt = 4

\* C13: SetCap(id, cap) on a ConfigItem that exists sets cap and clears pendingCap
\* and pendingCapValidAt; a cap > 0 also sets enabled = true and removableAt = 0,
\* a cap of 0 leaves enabled and removableAt as they were.
SetCapEffect ==
    [][(last'.ev.kind = "SetCap" /\ ConfigKey(last'.ev) \in DOMAIN vaultConfigItem)
         => LET ev == last'.ev
                ck == ConfigKey(ev)
                row == vaultConfigItem[ck]
            IN  /\ last'.error = NoError
                /\ OnlyConfigItem(ck)
                /\ vaultConfigItem'[ck] =
                       [cap |-> ev.cap, pendingCap |-> 0, pendingCapValidAt |-> 0,
                        enabled |-> IF ev.cap > 0 THEN TRUE ELSE row.enabled,
                        removableAt |-> IF ev.cap > 0 THEN 0 ELSE row.removableAt]]_vars

\* a cap of 1 set for one market while the other market has a pending cap
SetCapWitness ==
    /\ LastIs("SetCap") /\ Succeeded
    /\ vaultConfigItem[ConfigKey(last.ev)].cap = 1
    /\ vaultConfigItem[ConfigKey(last.ev)].enabled
    /\ vaultConfigItem[ConfigKey(last.ev)].pendingCap = 0
    /\ \E k \in DOMAIN vaultConfigItem : vaultConfigItem[k].pendingCap > 0

\* C14: RevokePendingCap(id) raises no error; it clears pendingCap and
\* pendingCapValidAt of a ConfigItem that exists and leaves its cap, enabled and
\* removableAt; it inserts a default ConfigItem when there is none.
RevokePendingCapEffect ==
    [][last'.ev.kind = "RevokePendingCap"
         => LET ev == last'.ev
                ck == ConfigKey(ev)
            IN  /\ last'.error = NoError
                /\ OnlyConfigItem(ck)
                /\ vaultConfigItem'[ck].pendingCap = 0
                /\ vaultConfigItem'[ck].pendingCapValidAt = 0
                /\ IF ck \in DOMAIN vaultConfigItem
                   THEN /\ vaultConfigItem'[ck].cap = vaultConfigItem[ck].cap
                        /\ vaultConfigItem'[ck].enabled = vaultConfigItem[ck].enabled
                        /\ vaultConfigItem'[ck].removableAt = vaultConfigItem[ck].removableAt
                   ELSE /\ vaultConfigItem'[ck].enabled = FALSE
                        /\ vaultConfigItem'[ck].removableAt = 0]_vars

\* a revocation for an enabled market whose removal is pending, and a default
\* ConfigItem a revocation has inserted for the other market
RevokePendingCapWitness ==
    /\ LastIs("RevokePendingCap") /\ Succeeded
    /\ vaultConfigItem[ConfigKey(last.ev)].cap = 1
    /\ vaultConfigItem[ConfigKey(last.ev)].enabled
    /\ vaultConfigItem[ConfigKey(last.ev)].pendingCap = 0
    /\ \E k \in DOMAIN vaultConfigItem :
          /\ k # ConfigKey(last.ev)
          /\ vaultConfigItem[k] = [cap |-> 0, pendingCap |-> 0, pendingCapValidAt |-> 0,
                                    enabled |-> FALSE, removableAt |-> 0]

\* C15: SubmitMarketRemoval(id) at block time t raises no error and leaves a
\* ConfigItem with removableAt = t + the stored timelock, creating it when absent.
SubmitMarketRemovalUpserts ==
    [][last'.ev.kind = "SubmitMarketRemoval"
         => LET ev == last'.ev
                ck == ConfigKey(ev)
            IN  /\ last'.error = NoError
                /\ ck \in DOMAIN vaultConfigItem'
                /\ vaultConfigItem'[ck].removableAt =
                       ev.timestamp + StoredTimelock(VaultKey(ev))]_vars

(***************************************************************************)
(* The supply queue and the withdraw queue.                                *)
(***************************************************************************)
NextQueue ==
    \/ nEvents < MaxEvents /\ \E ev \in CreateEvents : CreateMetaMorpho(ev)
    \/ nEvents < MaxEvents /\ \E ev \in SetSupplyQueueEvents : SetSupplyQueue(ev, {TRUE})
    \/ nEvents < MaxEvents /\ \E ev \in SetWithdrawQueueEvents : SetWithdrawQueue(ev, {TRUE})

SpecQueue == Init /\ [][NextQueue]_vars

\* the items after hold the queue q at the ordinals below its length and null at
\* the ordinals from its length to oldLength; the other rows are as before
HoldsQueue(before, after, vk, oldLength, q) ==
    /\ \A i \in 0..(Len(q) - 1) :
          /\ <<vk[1], vk[2], i>> \in DOMAIN after
          /\ after[<<vk[1], vk[2], i>>].marketId = q[i + 1]
    /\ \A i \in Len(q)..(oldLength - 1) :
          /\ <<vk[1], vk[2], i>> \in DOMAIN after
          /\ after[<<vk[1], vk[2], i>>].marketId = Null
    /\ \A k \in DOMAIN after :
          (<<k[1], k[2]>> # vk \/ k[3] >= Max(oldLength, Len(q)))
              => (k \in DOMAIN before /\ after[k] = before[k])

\* no item at an ordinal from the recorded length on holds a market
NoItemBeyondLength ==
    \A vk \in DOMAIN vault :
        /\ \A k \in DOMAIN vaultSupplyQueueItem :
              (<<k[1], k[2]>> = vk /\ k[3] >= vault[vk].supplyQueueLength)
                  => vaultSupplyQueueItem[k].marketId = Null
        /\ \A k \in DOMAIN vaultWithdrawQueueItem :
              (<<k[1], k[2]>> = vk /\ k[3] >= vault[vk].withdrawQueueLength)
                  => vaultWithdrawQueueItem[k].marketId = Null

SupplyQueueReplaced ==
    LET ev == last'.ev
        vk == VaultKey(ev)
    IN  /\ vault'[vk].supplyQueueLength = Len(ev.newSupplyQueue)
        /\ HoldsQueue(vaultSupplyQueueItem, vaultSupplyQueueItem', vk,
                      vault[vk].supplyQueueLength, ev.newSupplyQueue)
        /\ vaultWithdrawQueueItem' = vaultWithdrawQueueItem

WithdrawQueueReplaced ==
    LET ev == last'.ev
        vk == VaultKey(ev)
    IN  /\ vault'[vk].withdrawQueueLength = Len(ev.newWithdrawQueue)
        /\ HoldsQueue(vaultWithdrawQueueItem, vaultWithdrawQueueItem', vk,
                      vault[vk].withdrawQueueLength, ev.newWithdrawQueue)
        /\ vaultSupplyQueueItem' = vaultSupplyQueueItem

\* C16: a SetSupplyQueue (SetWithdrawQueue) event that is processed records the
\* length of the new queue, leaves the new queue at the ordinals below it and
\* null at the ordinals from it to the old length; in every state no item at an
\* ordinal from the recorded length on holds a market.
QueueReplacement ==
    /\ []NoItemBeyondLength
    /\ [][/\ (last'.ev.kind = "SetSupplyQueue" /\ last'.error = NoError)
               => SupplyQueueReplaced
          /\ (last'.ev.kind = "SetWithdrawQueue" /\ last'.error = NoError)
               => WithdrawQueueReplaced]_vars

\* a supply queue of two markets replaced by a queue of one market
QueueWitness ==
    /\ LastIs("SetSupplyQueue") /\ Succeeded
    /\ last.ev.newSupplyQueue = <<"m2">>
    /\ vault[VaultKey(last.ev)].supplyQueueLength = 1
    /\ <<1, "v1", 1>> \in DOMAIN vaultSupplyQueueItem
    /\ vaultSupplyQueueItem[<<1, "v1", 0>>].marketId = "m2"
    /\ vaultSupplyQueueItem[<<1, "v1", 1>>].marketId = Null

(***************************************************************************)
(* The queues when the store can reject the write of the items.            *)
(***************************************************************************)
NextQueueFault ==
    \/ nEvents < MaxEvents /\ \E ev \in CreateEvents : CreateMetaMorpho(ev)
    \/ nEvents < MaxEvents /\ \E ev \in SetSupplyQueueEvents : SetSupplyQueue(ev, BOOLEAN)
    \/ nEvents < MaxEvents /\ \E ev \in SetWithdrawQueueEvents : SetWithdrawQueue(ev, BOOLEAN)

SpecQueueFault == Init /\ [][NextQueueFault]_vars

\* the items of the vault are the queue q: its markets at the ordinals below
\* its length and no market at any other ordinal
ItemsAre(items, vk, q) ==
    /\ \A i \in 0..(Len(q) - 1) :
          /\ <<vk[1], vk[2], i>> \in DOMAIN items
          /\ items[<<vk[1], vk[2], i>>].marketId = q[i + 1]
    /\ \A k \in DOMAIN items :
          (<<k[1], k[2]>> = vk /\ k[3] >= Len(q)) => items[k].marketId = Null

\* C17: whenever a SetSupplyQueue event, processed or failed, leaves the length
\* of its queue recorded, the items hold that queue and not the previous one.
QueueLengthAndItemsAgree ==
    [][(/\ last'.ev.kind = "SetSupplyQueue"
        /\ VaultKey(last'.ev) \in DOMAIN vault'
        /\ vault'[VaultKey(last'.ev)].supplyQueueLength = Len(last'.ev.newSupplyQueue))
         => ItemsAre(vaultSupplyQueueItem', VaultKey(last'.ev),
                     last'.ev.newSupplyQueue)]_vars

(***************************************************************************)
(* The transaction recorder: all the event families that write a row.      *)
(***************************************************************************)
\* mints for a and transfers from a, of 0 or 1 share
AuditTransferEvents ==
    {ev \in TransfersOf({0, 1}) : ev.from \in {zeroAddress, "a"} /\ ev.to \in Users}

AuditDepositEvents == {ev \in DepositEvents : ev.owner = "a"}

AuditWithdrawEvents == {ev \in WithdrawEvents : ev.owner = "a"}

NextAudit ==
    \/ nEvents < MaxEvents /\ \E ev \in CreateEvents : CreateMetaMorpho(ev)
    \/ nEvents < MaxEvents /\ \E ev \in AuditTransferEvents : Transfer(ev)
    \/ nEvents < MaxEvents /\ \E ev \in AuditDepositEvents : Deposit(ev)
    \/ nEvents < MaxEvents /\ \E ev \in AuditWithdrawEvents : Withdraw(ev)
    \/ nEvents < MaxEvents /\ \E ev \in AccrueInterestEvents : AccrueInterest(ev)
    \/ nEvents < MaxEvents /\ \E ev \in ReallocateSupplyEvents : ReallocateSupply(ev)
    \/ nEvents < MaxEvents /\ \E ev \in ReallocateWithdrawEvents : ReallocateWithdraw(ev)

SpecAudit == Init /\ [][NextAudit]_vars

\* the event families whose handler inserts a transaction row
AuditKinds ==
    {"Deposit", "Withdraw", "AccrueInterest", "ReallocateSupply", "ReallocateWithdraw",
     "Transfer"}

\* C18: a step keeps every transaction row as it is and adds at most one row, at
\* the key (chain id, transaction hash, log index) of the event's log entry.
TransactionsAppendOnly ==
    [][/\ \A k \in DOMAIN transaction :
             k \in DOMAIN transaction' /\ transaction'[k] = transaction[k]
       /\ IF last'.ev.kind \in AuditKinds
          THEN DOMAIN transaction' \subseteq
                   DOMAIN transaction \cup {TransactionKey(last'.ev)}
          ELSE transaction' = transaction]_vars

\* a Deposit whose log entry already has a row, written by a ReallocateSupply
TransactionsWitness ==
    /\ LastIs("Deposit")
    /\ last.error = UniqueConstraintError("transaction")
    /\ transaction[TransactionKey(last.ev)].type = "VaultReallocateSupply"
    /\ Cardinality(DOMAIN transaction) = 2

\* C19: an event that is not a Transfer changes no vaultBalance row and no
\* totalSupply; Deposit, Withdraw, AccrueInterest, ReallocateSupply and
\* ReallocateWithdraw leave the whole vault table as it is.
OnlyTransferMovesShares ==
    [][last'.ev.kind # "Transfer"
         => /\ vaultBalance' = vaultBalance
            /\ \A vk \in DOMAIN vault :
                  vk \in DOMAIN vault' /\ vault'[vk].totalSupply = vault[vk].totalSupply
            /\ last'.ev.kind \in AuditKinds => vault' = vault]_vars

\* a Withdraw of 1 share recorded while its owner still holds the share
SharesFrameWitness ==
    /\ LastIs("Withdraw") /\ Succeeded
    /\ last.ev.shares = 1
    /\ TransactionKey(last.ev) \in DOMAIN transaction
    /\ transaction[TransactionKey(last.ev)].type = "MetaMorphoWithdraw"
    /\ VaultKey(last.ev) \in DOMAIN vault
    /\ vault[VaultKey(last.ev)].totalSupply = 1
    /\ BalanceKey(last.ev, last.ev.owner) \in DOMAIN vaultBalance
    /\ vaultBalance[BalanceKey(last.ev, last.ev.owner)].shares = 1

\* an event whose amounts are zero
HasZeroAmounts(ev) ==
    \/ ev.kind = "Transfer" /\ ev.value = 0
    \/ ev.kind \in {"Deposit", "Withdraw"} /\ (ev.assets = 0 \/ ev.shares = 0)
    \/ ev.kind = "AccrueInterest" /\ ev.feeShares = 0
    \/ ev.kind = "ReallocateSupply" /\ ev.suppliedAssets = 0 /\ ev.suppliedShares = 0
    \/ ev.kind = "ReallocateWithdraw" /\ ev.withdrawnAssets = 0 /\ ev.withdrawnShares = 0

\* C20: an event whose amounts are zero writes no transaction row.
ZeroAmountsWriteNoRow ==
    [][HasZeroAmounts(last'.ev) => transaction' = transaction]_vars

(***************************************************************************)
(* The transaction recorder: fee accrual.                                  *)
(***************************************************************************)
NextAccrual ==
    \/ nEvents < MaxEvents /\ \E ev \in CreateEvents : CreateMetaMorpho(ev)
    \/ nEvents < MaxEvents /\ \E ev \in SetFeeRecipientEvents : SetFeeRecipient(ev)
    \/ nEvents < MaxEvents /\ \E ev \in AccrueInterestEvents : AccrueInterest(ev)

SpecAccrual == Init /\ [][NextAccrual]_vars

\* C21: an AccrueInterest event with feeShares = 0 writes nothing; with
\* feeShares > 0, a vault row, an answer of the conversion query and a log entry
\* that has no row, it inserts one row of type MetaMorphoFee whose user is the
\* stored feeRecipient, whose shares are feeShares and whose assets are the answer.
AccrueInterestEffect ==
    [][last'.ev.kind = "AccrueInterest"
         => LET ev == last'.ev
                vk == VaultKey(ev)
                tk == TransactionKey(ev)
                conv == last'.answers[1]
            IN  IF ev.feeShares = 0
                THEN tables' = tables /\ last'.error = NoError
                ELSE (vk \in DOMAIN vault /\ conv.ok /\ tk \notin DOMAIN transaction)
                       => /\ last'.error = NoError
                          /\ DOMAIN transaction' = DOMAIN transaction \cup {tk}
                          /\ \A k \in DOMAIN transaction :
                                transaction'[k] = transaction[k]
                          /\ transaction'[tk].type = "MetaMorphoFee"
                          /\ transaction'[tk].user = vault[vk].feeRecipient
                          /\ transaction'[tk].vaultShares = ev.feeShares
                          /\ transaction'[tk].vaultAssets = conv.assets
                          /\ vault' = vault
                          /\ vaultBalance' = vaultBalance]_vars

\* a fee recorded against the fee recipient the vault row holds
AccrueInterestWitness ==
    /\ LastIs("AccrueInterest") /\ Succeeded
    /\ last.ev.feeShares = 1
    /\ VaultKey(last.ev) \in DOMAIN vault
    /\ TransactionKey(last.ev) \in DOMAIN transaction
    /\ vault[VaultKey(last.ev)].feeRecipient = "b"
    /\ transaction[TransactionKey(last.ev)].user = "b"
    /\ transaction[TransactionKey(last.ev)].vaultAssets = 2

\* C25: an AccrueInterest event for which the node answers one of the calls of
\* the conversion query, after failed ones, is processed and writes its row.
ConversionRetried ==
    [][(/\ last'.ev.kind = "AccrueInterest"
        /\ last'.ev.feeShares > 0
        /\ VaultKey(last'.ev) \in DOMAIN vault
        /\ TransactionKey(last'.ev) \notin DOMAIN transaction
        /\ \E i \in DOMAIN last'.answers : last'.answers[i].ok)
         => /\ last'.error = NoError
            /\ TransactionKey(last'.ev) \in DOMAIN transaction']_vars

(***************************************************************************)
(* The allocators of a vault.                                              *)
(***************************************************************************)
AllocatorEvents ==
    [kind : {"SetIsAllocator"}, chainId : Chains, address : VaultAddrs,
     allocator : Addresses, isAllocator : BOOLEAN]

NextAllocator ==
    \/ nEvents < MaxEvents /\ \E ev \in CreateEvents : CreateMetaMorpho(ev)
    \/ nEvents < MaxEvents /\ \E ev \in AllocatorEvents : SetIsAllocator(ev)
    \/ nEvents < MaxEvents /\ \E ev \in SetCuratorEvents : SetCurator(ev)

SpecAllocator == Init /\ [][NextAllocator]_vars

Range(seq) == {seq[i] : i \in DOMAIN seq}

\* C22: SetIsAllocator on a vault that has a row raises no error, adds the
\* address to the allocators or removes it from them, leaves the stored list as
\* it is when the address is already there (or already absent), never stores an
\* address twice, and changes nothing when the same event is processed again.
AllocatorsIdempotent ==
    [][(last'.ev.kind = "SetIsAllocator" /\ VaultKey(last'.ev) \in DOMAIN vault)
         => LET ev == last'.ev
                old == vault[VaultKey(ev)].allocators
                new == vault'[VaultKey(ev)].allocators
            IN  /\ last'.error = NoError
                /\ Range(new) = IF ev.isAllocator THEN Range(old) \cup {ev.allocator}
                                 ELSE Range(old) \ {ev.allocator}
                /\ Cardinality(Range(new)) = Len(new)
                /\ (ev.isAllocator <=> ev.allocator \in Range(old)) => new = old
                /\ (last.ev = ev /\ last.error = NoError) => vault' = vault]_vars

\* the allocator a is added again after b was added
AllocatorWitness ==
    /\ LastIs("SetIsAllocator") /\ Succeeded
    /\ last.ev.isAllocator /\ last.ev.allocator = "a"
    /\ VaultKey(last.ev) \in DOMAIN vault
    /\ vault[VaultKey(last.ev)].allocators = <<"a", "b">>

(***************************************************************************)
(* Two chains that carry the same vault address, holders and market id.    *)
(***************************************************************************)
ChainIds == {1, 2}

\* the same events, emitted on every chain
OnChains(events) == {[ev EXCEPT !.chainId = c] : ev \in events, c \in ChainIds}

ChainTransferEvents ==
    {ev \in TransfersOf({1}) :
        /\ ev.hash = "h1"
        /\ <<ev.from, ev.to>> \in {<<zeroAddress, "a">>, <<"a", "b">>, <<"a", zeroAddress>>}}

ChainEvents ==
    OnChains(CreateEvents \cup ChainTransferEvents
             \cup {ev \in SubmitCapEvents : ev.id = "m1" /\ ev.cap = 1}
             \cup {ev \in SetSupplyQueueEvents : ev.newSupplyQueue = <<"m1">>})

\* what the node can answer to the calls the handler of ev makes
NodeAnswers(ev) ==
    IF ev.kind = "Transfer" THEN Conversions(ev) ELSE {[ok |-> TRUE, assets |-> 0]}

\* the handler registered for the event's kind runs on the tables of db
Handle(db, ev, conv) ==
    LET clean == [db EXCEPT !.error = NoError]
    IN  CASE ev.kind = "CreateMetaMorpho" -> CreateMetaMorphoHandler(clean, ev)
          [] ev.kind = "Transfer" ->
                 TransferHandler(clean, ev, CHOOSE s \in Schedules(ev) : TRUE, conv)
          [] ev.kind = "SubmitCap" -> SubmitCapHandler(clean, ev)
          [] ev.kind = "SetSupplyQueue" -> SetSupplyQueueHandler(clean, ev, TRUE)

NextChains ==
    \/ nEvents < MaxEvents /\ \E ev \in OnChains(CreateEvents) : CreateMetaMorpho(ev)
    \/ nEvents < MaxEvents /\ \E ev \in OnChains(ChainTransferEvents) : Transfer(ev)
    \/ nEvents < MaxEvents
       /\ \E ev \in ChainEvents : ev.kind = "SubmitCap" /\ SubmitCap(ev)
    \/ nEvents < MaxEvents
       /\ \E ev \in ChainEvents : ev.kind = "SetSupplyQueue" /\ SetSupplyQueue(ev, {TRUE})

SpecChains == Init /\ [][NextChains]_vars

\* the rows of a table that are on chain c, and those that are not
RowsOn(table, c) == [k \in {k \in DOMAIN table : k[1] = c} |-> table[k]]

RowsOff(table, c) == [k \in {k \in DOMAIN table : k[1] # c} |-> table[k]]

\* db without the rows of the other chains
OnlyChain(db, c) ==
    [vault |-> RowsOn(db.vault, c), vaultBalance |-> RowsOn(db.vaultBalance, c),
     transaction |-> RowsOn(db.transaction, c),
     vaultConfigItem |-> RowsOn(db.vaultConfigItem, c),
     vaultSupplyQueueItem |-> RowsOn(db.vaultSupplyQueueItem, c),
     vaultWithdrawQueueItem |-> RowsOn(db.vaultWithdrawQueueItem, c),
     error |-> db.error]

\* the handler of ev reads only rows of ev's chain: the rows of the other chains
\* make no difference to what it writes on its chain and to how it ends
ReadsOwnChain ==
    \A ev \in ChainEvents : \A conv \in NodeAnswers(ev) :
        Handle(OnlyChain(Db, ev.chainId), ev, conv)
            = OnlyChain(Handle(Db, ev, conv), ev.chainId)

\* two events of different chains leave the same tables, and end the same way,
\* in either order
EitherOrder ==
    \A e1, e2 \in ChainEvents :
        e1.chainId # e2.chainId =>
            \A c1 \in NodeAnswers(e1), c2 \in NodeAnswers(e2) :
                LET first1 == Handle(Db, e1, c1)
                    first2 == Handle(Db, e2, c2)
                    then2 == Handle(first1, e2, c2)
                    then1 == Handle(first2, e1, c1)
                IN  /\ [then2 EXCEPT !.error = NoError] = [then1 EXCEPT !.error = NoError]
                    /\ then1.error = first1.error
                    /\ then2.error = first2.error

\* the step of an event leaves every row of the other chains as it is
WritesOwnChain ==
    LET c == last'.ev.chainId
    IN  /\ RowsOff(vault', c) = RowsOff(vault, c)
        /\ RowsOff(vaultBalance', c) = RowsOff(vaultBalance, c)
        /\ RowsOff(transaction', c) = RowsOff(transaction, c)
        /\ RowsOff(vaultConfigItem', c) = RowsOff(vaultConfigItem, c)
        /\ RowsOff(vaultSupplyQueueItem', c) = RowsOff(vaultSupplyQueueItem, c)
        /\ RowsOff(vaultWithdrawQueueItem', c) = RowsOff(vaultWithdrawQueueItem, c)

\* C23: chains are isolated: the handler of an event of chain c reads and
\* writes only rows whose chain id is c, so two events of different chains give
\* the same store whichever is processed first, also when they name the same
\* vault address, holder and market id.
ChainsIsolated ==
    /\ [](ReadsOwnChain /\ EitherOrder)
    /\ [][WritesOwnChain]_vars

\* the same vault address has a row on both chains, and one share has been
\* minted to the same holder on each of them, last on chain 2
ChainsWitness ==
    /\ LastIs("Transfer") /\ Succeeded /\ IsMint(last.ev) /\ last.ev.chainId = 2
    /\ {<<1, "v1">>, <<2, "v1">>} = DOMAIN vault
    /\ {<<1, "v1", "a">>, <<2, "v1", "a">>} = DOMAIN vaultBalance
    /\ vaultBalance[<<1, "v1", "a">>].shares = 1
    /\ vaultBalance[<<2, "v1", "a">>].shares = 1
    /\ vault[<<1, "v1">>].totalSupply = 1
    /\ vault[<<2, "v1">>].totalSupply = 1

(***************************************************************************)
(* A failure after the balances of a pure transfer were written.           *)
(***************************************************************************)
\* the steps of a pure transfer that run after the two balance writes
LaterStepErrors == {ContractCallError, UniqueConstraintError("transaction")}

\* C24: when the conversion query or the insert of the transaction row fails
\* while a pure Transfer is processed, the vaultBalance rows of the sender and
\* of the recipient are as they were before the event.
LaterFailureLeavesBalances ==
    [][(IsPure(last'.ev) /\ last'.error \in LaterStepErrors)
         => LET ev == last'.ev
            IN  \A user \in {ev.from, ev.to} :
                    ReadRow(vaultBalance', BalanceKey(ev, user))
                        = ReadRow(vaultBalance, BalanceKey(ev, user))]_vars

(***************************************************************************)
(* Every event kind, on one vault: which rows exist, and which are kept.   *)
(***************************************************************************)
\* mint to a, a -> b, b -> a, burn from a, of one share each
RowTransferEvents ==
    {ev \in TransfersOf({1}) :
        <<ev.from, ev.to, ev.hash>> \in {<<zeroAddress, "a", "h1">>, <<"a", "b", "h1">>,
                                         <<"b", "a", "h2">>, <<"a", zeroAddress, "h1">>}}

\* the events of a kind that name the market m1, and those of the hash h1
OfM1(events) == {ev \in events : ev.id = "m1"}

OfH1(events) == {ev \in events : ev.hash = "h1"}

NextRows ==
    \/ nEvents < MaxEvents /\ \E ev \in ConfigCreateEvents : CreateMetaMorpho(ev)
    \/ nEvents < MaxEvents /\ \E ev \in RowTransferEvents : Transfer(ev)
    \/ nEvents < MaxEvents
       /\ \E ev \in OfH1(DepositEvents) :
              ev.owner = "a" /\ ev.assets = 1 /\ ev.shares = 1 /\ Deposit(ev)
    \/ nEvents < MaxEvents
       /\ \E ev \in OfH1(WithdrawEvents) :
              ev.owner = "a" /\ ev.assets = 1 /\ ev.shares = 1 /\ Withdraw(ev)
    \/ nEvents < MaxEvents
       /\ \E ev \in OfH1(AccrueInterestEvents) : ev.feeShares = 1 /\ AccrueInterest(ev)
    \/ nEvents < MaxEvents
       /\ \E ev \in OfH1(ReallocateSupplyEvents) :
              ev.suppliedAssets = 1 /\ ev.suppliedShares = 1 /\ ReallocateSupply(ev)
    \/ nEvents < MaxEvents
       /\ \E ev \in OfH1(ReallocateWithdrawEvents) :
              ev.withdrawnAssets = 1 /\ ev.withdrawnShares = 1 /\ ReallocateWithdraw(ev)
    \/ nEvents < MaxEvents
       /\ \E ev \in OwnershipTransferStartedEvents : OwnershipTransferStarted(ev)
    \/ nEvents < MaxEvents
       /\ \E ev \in OwnershipTransferredEvents :
              ev.address \in VaultAddrs /\ OwnershipTransferred(ev)
    \/ nEvents < MaxEvents
       /\ \E ev \in SetNameEvents : ev.address \in VaultAddrs /\ SetName(ev)
    \/ nEvents < MaxEvents
       /\ \E ev \in SetSymbolEvents : ev.address \in VaultAddrs /\ SetSymbol(ev)
    \/ nEvents < MaxEvents
       /\ \E ev \in SetTimelockEvents :
              ev.address \in VaultAddrs /\ ev.newTimelock = 0 /\ SetTimelock(ev)
    \/ nEvents < MaxEvents
       /\ \E ev \in SetCuratorEvents : ev.newCurator = "b" /\ SetCurator(ev)
    \/ nEvents < MaxEvents /\ \E ev \in SetFeeEvents : SetFee(ev)
    \/ nEvents < MaxEvents
       /\ \E ev \in SetFeeRecipientEvents : ev.newFeeRecipient = "b" /\ SetFeeRecipient(ev)
    \/ nEvents < MaxEvents /\ \E ev \in SetSkimRecipientEvents : SetSkimRecipient(ev)
    \/ nEvents < MaxEvents
       /\ \E ev \in SetGuardianEvents : ev.guardian = "b" /\ SetGuardian(ev)
    \/ nEvents < MaxEvents
       /\ \E ev \in SetIsAllocatorEvents : ev.allocator = "b" /\ SetIsAllocator(ev)
    \/ nEvents < MaxEvents
       /\ \E ev \in SubmitGuardianEvents : ev.newGuardian = "b" /\ SubmitGuardian(ev)
    \/ nEvents < MaxEvents
       /\ \E ev \in RevokePendingGuardianEvents : RevokePendingGuardian(ev)
    \/ nEvents < MaxEvents
       /\ \E ev \in SubmitTimelockEvents : ev.newTimelock = 3 /\ SubmitTimelock(ev)
    \/ nEvents < MaxEvents
       /\ \E ev \in RevokePendingTimelockEvents : RevokePendingTimelock(ev)
    \/ nEvents < MaxEvents
       /\ \E ev \in OfM1(SubmitCapEvents) : ev.cap = 1 /\ SubmitCap(ev)
    \/ nEvents < MaxEvents
       /\ \E ev \in OfM1(SubmitMarketRemovalEvents) : SubmitMarketRemoval(ev)
    \/ nEvents < MaxEvents
       /\ \E ev \in OfM1(RevokePendingCapEvents) : RevokePendingCap(ev)
    \/ nEvents < MaxEvents
       /\ \E ev \in OfM1(RevokePendingMarketRemovalEvents) : RevokePendingMarketRemoval(ev)
    \/ nEvents < MaxEvents /\ \E ev \in OfM1(SetCapEvents) : SetCap(ev)
    \/ nEvents < MaxEvents
       /\ \E ev \in SetSupplyQueueEvents :
              Len(ev.newSupplyQueue) < 2 /\ SetSupplyQueue(ev, {TRUE})
    \/ nEvents < MaxEvents
       /\ \E ev \in SetWithdrawQueueEvents :
              Len(ev.newWithdrawQueue) < 2 /\ SetWithdrawQueue(ev, {TRUE})
    \/ nEvents < MaxEvents
       /\ \E ev \in UpdateLastTotalAssetsEvents : UpdateLastTotalAssets(ev)
    \/ nEvents < MaxEvents /\ \E ev \in UpdateLostAssetsEvents : UpdateLostAssets(ev)

SpecRows == Init /\ [][NextRows]_vars

\* C26: there is at most one vault row per (chain id, address): only a
\* CreateMetaMorpho event adds a vault row, and it adds the row of its own key;
\* a CreateMetaMorpho for a key that has a row adds no row and leaves the
\* fields of the row as they are.
OneVaultRow ==
    [][LET ev == last'.ev
       IN  IF ev.kind = "CreateMetaMorpho"
           THEN IF VaultKey(ev) \in DOMAIN vault THEN vault' = vault
                ELSE /\ DOMAIN vault' = DOMAIN vault \cup {VaultKey(ev)}
                     /\ \A vk \in DOMAIN vault : vault'[vk] = vault[vk]
           ELSE DOMAIN vault' = DOMAIN vault]_vars

\* a second CreateMetaMorpho, with another timelock, has been turned down
OneVaultRowWitness ==
    /\ LastIs("CreateMetaMorpho")
    /\ last.error = UniqueConstraintError("vault")
    /\ DOMAIN vault = {VaultKey(last.ev)}
    /\ vault[VaultKey(last.ev)].timelock # last.ev.initialTimelock

\* the holder's row before and after a step that moved shares
SharesBefore(ev, user) == ReadRow(vaultBalance, BalanceKey(ev, user))

\* C27: no event deletes a row: the key sets of vault, vaultConfigItem,
\* vaultBalance and the two queue tables never shrink; a holder whose balance
\* comes to 0 by a burn or a transfer-out keeps a row with shares = 0, and a
\* mint or transfer-in of v to a holder whose row has shares = 0 sets it to v.
RowsNeverDeleted ==
    [][/\ DOMAIN vault \subseteq DOMAIN vault'
       /\ DOMAIN vaultConfigItem \subseteq DOMAIN vaultConfigItem'
       /\ DOMAIN vaultBalance \subseteq DOMAIN vaultBalance'
       /\ DOMAIN vaultSupplyQueueItem \subseteq DOMAIN vaultSupplyQueueItem'
       /\ DOMAIN vaultWithdrawQueueItem \subseteq DOMAIN vaultWithdrawQueueItem'
       /\ LET ev == last'.ev
          IN  (ev.kind = "Transfer" /\ last'.error = NoError) =>
                  /\ (ev.from # zeroAddress /\ SharesBefore(ev, ev.from).shares = ev.value)
                         => /\ BalanceKey(ev, ev.from) \in DOMAIN vaultBalance'
                            /\ vaultBalance'[BalanceKey(ev, ev.from)].shares = 0
                  /\ (/\ ev.to # zeroAddress
                      /\ SharesBefore(ev, ev.to) = [found |-> TRUE, shares |-> 0])
                         => vaultBalance'[BalanceKey(ev, ev.to)].shares = ev.value]_vars

\* a's balance came to 0 by the transfer a -> b, and the transfer b -> a has set
\* it to 1 again and left b with a row of 0 shares
RowsWitness ==
    /\ LastIs("Transfer") /\ Succeeded /\ last.ev.from = "b" /\ last.ev.to = "a"
    /\ Cardinality(DOMAIN transaction) = 2
    /\ DOMAIN vaultBalance = {BalanceKey(last.ev, "a"), BalanceKey(last.ev, "b")}
    /\ vaultBalance[BalanceKey(last.ev, "a")].shares = 1
    /\ vaultBalance[BalanceKey(last.ev, "b")].shares = 0

(***************************************************************************)
(* The guardian and the timelock: what is pending and what is in force.    *)
(***************************************************************************)
NextTimelock ==
    \/ nEvents < MaxEvents /\ \E ev \in ConfigCreateEvents : CreateMetaMorpho(ev)
    \/ nEvents < MaxEvents /\ \E ev \in SubmitGuardianEvents : SubmitGuardian(ev)
    \/ nEvents < MaxEvents
       /\ \E ev \in RevokePendingGuardianEvents : RevokePendingGuardian(ev)
    \/ nEvents < MaxEvents /\ \E ev \in SetGuardianEvents : SetGuardian(ev)
    \/ nEvents < MaxEvents /\ \E ev \in SubmitTimelockEvents : SubmitTimelock(ev)
    \/ nEvents < MaxEvents
       /\ \E ev \in RevokePendingTimelockEvents : RevokePendingTimelock(ev)
    \/ nEvents < MaxEvents
       /\ \E ev \in SetTimelockEvents : ev.address \in VaultAddrs /\ SetTimelock(ev)
    \/ nEvents < MaxEvents /\ \E ev \in OfM1(SubmitCapEvents) : ev.cap = 1 /\ SubmitCap(ev)
    \/ nEvents < MaxEvents
       /\ \E ev \in OfM1(SubmitMarketRemovalEvents) : SubmitMarketRemoval(ev)

SpecTimelock == Init /\ [][NextTimelock]_vars

\* the step wrote the vault row of its event as row, and nothing else
VaultRowBecomes(ev, row) ==
    /\ last'.error = NoError
    /\ vault' = [vault EXCEPT ![VaultKey(ev)] = row]
    /\ UNCHANGED <<vaultBalance, transaction, vaultConfigItem, vaultSupplyQueueItem,
                   vaultWithdrawQueueItem>>

\* C29: on a vault that has a row, SubmitGuardian(g) at block time t sets
\* pendingGuardian = g and pendingGuardianValidAt = t + the stored timelock and
\* leaves guardian as it is; RevokePendingGuardian sets pendingGuardian to the
\* zero address and pendingGuardianValidAt to 0 and leaves guardian as it is;
\* SetGuardian(g) sets guardian = g and clears both pending fields.
GuardianLifecycle ==
    [][VaultKey(last'.ev) \in DOMAIN vault =>
         LET ev == last'.ev
             row == vault[VaultKey(ev)]
         IN  /\ ev.kind = "SubmitGuardian" =>
                    /\ VaultRowBecomes(ev,
                           [row EXCEPT !.pendingGuardian = ev.newGuardian,
                                       !.pendingGuardianValidAt =
                                            ev.timestamp + row.timelock])
                    /\ vault'[VaultKey(ev)].guardian = row.guardian
             /\ ev.kind = "RevokePendingGuardian" =>
                    /\ VaultRowBecomes(ev,
                           [row EXCEPT !.pendingGuardian = zeroAddress,
                                       !.pendingGuardianValidAt = 0])
                    /\ vault'[VaultKey(ev)].guardian = row.guardian
             /\ ev.kind = "SetGuardian" =>
                    VaultRowBecomes(ev,
                        [row EXCEPT !.guardian = ev.guardian,
                                    !.pendingGuardian = zeroAddress,
                                    !.pendingGuardianValidAt = 0])]_vars

\* guardian b is pending on a vault whose guardian in force is a
GuardianWitness ==
    /\ LastIs("SubmitGuardian") /\ Succeeded /\ last.ev.newGuardian = "b"
    /\ VaultKey(last.ev) \in DOMAIN vault
    /\ vault[VaultKey(last.ev)].guardian = "a"
    /\ vault[VaultKey(last.ev)].pendingGuardian = "b"
    /\ vault[VaultKey(last.ev)].timelock = 2
    /\ vault[VaultKey(last.ev)].pendingGuardianValidAt = 4

SubmitKinds == {"SubmitGuardian", "SubmitTimelock", "SubmitCap", "SubmitMarketRemoval"}

\* the time at which what the Submit event ev proposed becomes valid
ValidAtAfter(ev) ==
    CASE ev.kind = "SubmitGuardian" -> vault'[VaultKey(ev)].pendingGuardianValidAt
      [] ev.kind = "SubmitTimelock" -> vault'[VaultKey(ev)].pendingTimelockValidAt
      [] ev.kind = "SubmitCap" -> vaultConfigItem'[ConfigKey(ev)].pendingCapValidAt
      [] ev.kind = "SubmitMarketRemoval" -> vaultConfigItem'[ConfigKey(ev)].removableAt

\* C30: on a vault that has a row, SubmitTimelock(n) at block time t sets
\* pendingTimelock = n and pendingTimelockValidAt = t + the timelock in force
\* before the change (not n) and leaves timelock as it is; RevokePendingTimelock
\* clears both pending fields and leaves timelock as it is; SetTimelock(n) sets
\* timelock = n and clears both pending fields, and every Submit event processed
\* after it uses n as the delay: no other event changes the stored timelock, and
\* a Submit event that is processed sets its valid-at time to t + the stored one.
TimelockLifecycle ==
    [][VaultKey(last'.ev) \in DOMAIN vault =>
         LET ev == last'.ev
             row == vault[VaultKey(ev)]
         IN  /\ ev.kind = "SubmitTimelock" =>
                    /\ VaultRowBecomes(ev,
                           [row EXCEPT !.pendingTimelock = ev.newTimelock,
                                       !.pendingTimelockValidAt =
                                            ev.timestamp + row.timelock])
                    /\ vault'[VaultKey(ev)].timelock = row.timelock
             /\ ev.kind = "RevokePendingTimelock" =>
                    /\ VaultRowBecomes(ev,
                           [row EXCEPT !.pendingTimelock = 0,
                                       !.pendingTimelockValidAt = 0])
                    /\ vault'[VaultKey(ev)].timelock = row.timelock
             /\ ev.kind = "SetTimelock" =>
                    VaultRowBecomes(ev,
                        [row EXCEPT !.timelock = ev.newTimelock,
                                    !.pendingTimelock = 0,
                                    !.pendingTimelockValidAt = 0])
             /\ ev.kind # "SetTimelock" => vault'[VaultKey(ev)].timelock = row.timelock
             /\ (ev.kind \in SubmitKinds /\ last'.error = NoError) =>
                    /\ ValidAtAfter(ev) = ev.timestamp + row.timelock
                    /\ (/\ last.ev.kind = "SetTimelock"
                        /\ VaultKey(last.ev) = VaultKey(ev)
                        /\ last.error = NoError)
                           => ValidAtAfter(ev) = ev.timestamp + last.ev.newTimelock]_vars

\* after SetTimelock(0) on a vault created with a timelock of 1 or 2, the
\* timelock 3 is pending and becomes valid at the block time 2 of its Submit
TimelockWitness ==
    /\ LastIs("SubmitTimelock") /\ Succeeded /\ last.ev.newTimelock = 3
    /\ VaultKey(last.ev) \in DOMAIN vault
    /\ vault[VaultKey(last.ev)].timelock = 0
    /\ vault[VaultKey(last.ev)].pendingTimelock = 3
    /\ vault[VaultKey(last.ev)].pendingTimelockValidAt = 2

(***************************************************************************)
(* parseChainSelector on the selectors of at most MaxSelectorLen tokens.   *)
(***************************************************************************)
MaxSelectorLen == 4

Selectors == UNION {[1..n -> Tokens] : n \in 0..MaxSelectorLen}

InitSelector ==
    /\ vault = <<>>
    /\ vaultBalance = <<>>
    /\ transaction = <<>>
    /\ vaultConfigItem = <<>>
    /\ vaultSupplyQueueItem = <<>>
    /\ vaultWithdrawQueueItem = <<>>
    /\ last = [ev |-> [kind |-> "none"], error |-> NoError]
    /\ nEvents = 0
    /\ selector \in Selectors
    /\ parsed = NotParsed

ParseChainSelector ==
    /\ parsed = NotParsed
    /\ parsed' = <<parseChainSelector(selector)>>
    /\ UNCHANGED <<vault, vaultBalance, transaction, vaultConfigItem,
                   vaultSupplyQueueItem, vaultWithdrawQueueItem, last, nEvents,
                   selector>>

NextSelector == ParseChainSelector

SpecSelector == InitSelector /\ [][NextSelector]_vars

\* the chains a part names: those of the tier, or the chain itself
NamedBy(part) ==
    IF Len(part) # 1 THEN {}
    ELSE IF part[1] \in {"1", "2", "3", "4", "all"} THEN Items(tiers[part[1]])
    ELSE IF part[1] \in Items(ChainNames) THEN {part[1]}
    ELSE {}

\* C28: parseChainSelector on a comma-separated selector returns, without
\* duplicates, the union of the chains of every tier and of every chain named
\* in it, whitespace around the parts ignored; when a part is neither a tier
\* nor a chain name it raises the 'Invalid chain selector' error and returns
\* nothing.
SelectorParsed ==
    parsed # NotParsed =>
        LET parts == Parts(selector)
            result == parsed[1]
        IN  IF \A i \in DOMAIN parts : NamedBy(parts[i]) # {}
            THEN /\ result.error = NoError
                 /\ Items(result.chains) = UNION {NamedBy(parts[i]) : i \in DOMAIN parts}
                 /\ Cardinality(Items(result.chains)) = Len(result.chains)
            ELSE /\ result.error.type = "Error"
                 /\ result.error.message = "Invalid chain selector"
                 /\ result.chains = <<>>

(***************************************************************************)
(* The two steps of a change of owner.                                     *)
(***************************************************************************)
OwnerStartedEvents ==
    [kind : {"OwnershipTransferStarted"}, chainId : Chains, address : CtorVaults,
     newOwner : Users]

NextOwner ==
    \/ nEvents < MaxEvents
       /\ \E ev \in CtorCreateEvents :
              ev.decimalsUnderlying = 6 /\ ev.initialTimelock = 0 /\ CreateMetaMorpho(ev)
    \/ nEvents < MaxEvents /\ \E ev \in OwnerStartedEvents : OwnershipTransferStarted(ev)
    \/ nEvents < MaxEvents /\ \E ev \in OwnershipTransferredEvents : OwnershipTransferred(ev)

SpecOwner == Init /\ [][NextOwner]_vars

\* C31: on a vault that has a row, OwnershipTransferStarted(n) sets
\* pendingOwner = n and leaves owner as it is; OwnershipTransferred(n) sets
\* owner = n and pendingOwner to the zero address, whatever pendingOwner was.
TwoStepOwnership ==
    [][VaultKey(last'.ev) \in DOMAIN vault =>
         LET ev == last'.ev
             row == vault[VaultKey(ev)]
         IN  /\ ev.kind = "OwnershipTransferStarted" =>
                    /\ VaultRowBecomes(ev, [row EXCEPT !.pendingOwner = ev.newOwner])
                    /\ vault'[VaultKey(ev)].owner = row.owner
             /\ ev.kind = "OwnershipTransferred" =>
                    /\ VaultRowBecomes(ev, [row EXCEPT !.owner = ev.newOwner,
                                                       !.pendingOwner = zeroAddress])
                    /\ vault'[VaultKey(ev)].pendingOwner = zeroAddress]_vars

\* b has become the owner of v1 by the third event, and no owner is pending
OwnershipWitness ==
    /\ LastIs("OwnershipTransferred") /\ Succeeded
    /\ last.ev.newOwner = "b" /\ last.ev.address = "v1"
    /\ DOMAIN vault = {<<1, "v1">>}
    /\ vault[<<1, "v1">>].owner = "b"
    /\ vault[<<1, "v1">>].pendingOwner = zeroAddress
    /\ nEvents = 3

(***************************************************************************)
(* The four tolerant handlers when the store rejects their update.         *)
(***************************************************************************)
\* the columns the update of a tolerant handler sets
TolerantValues(ev) ==
    CASE ev.kind = "OwnershipTransferred" ->
             [owner |-> ev.newOwner, pendingOwner |-> zeroAddress]
      [] ev.kind = "SetName" -> [name |-> ev.name]
      [] ev.kind = "SetSymbol" -> [symbol |-> ev.symbol]
      [] ev.kind = "SetTimelock" ->
             [timelock |-> ev.newTimelock, pendingTimelock |-> 0,
              pendingTimelockValidAt |-> 0]

\* try { await update } catch (e) { ... }; storeOk: the store accepts the update
TolerantHandler(db, ev, storeOk) ==
    Tolerant(db, IF storeOk THEN UpdateVault(db, VaultKey(ev), TolerantValues(ev))
                 ELSE Throw(db, StoreError))

TolerantUpdate(ev) ==
    \E storeOk \in BOOLEAN :
        LET db == TolerantHandler(Db, ev, storeOk)
        IN  DeliverAs(ev, db, [ev |-> ev, error |-> db.error, storeOk |-> storeOk])

\* the handler of ev as it is registered
Registered(db, ev) ==
    CASE ev.kind = "OwnershipTransferred" -> OwnershipTransferredHandler(db, ev)
      [] ev.kind = "SetName" -> SetNameHandler(db, ev)
      [] ev.kind = "SetSymbol" -> SetSymbolHandler(db, ev)
      [] ev.kind = "SetTimelock" -> SetTimelockHandler(db, ev)

NextTolerant ==
    \/ nEvents < MaxEvents
       /\ \E ev \in CtorCreateEvents :
              /\ ev.decimalsUnderlying = 6 /\ ev.initialTimelock = 0
              /\ ev.initialOwner = "a" /\ CreateMetaMorpho(ev)
    \/ nEvents < MaxEvents /\ \E ev \in OwnershipTransferredEvents : TolerantUpdate(ev)
    \/ nEvents < MaxEvents /\ \E ev \in SetNameEvents : TolerantUpdate(ev)
    \/ nEvents < MaxEvents /\ \E ev \in SetSymbolEvents : TolerantUpdate(ev)
    \/ nEvents < MaxEvents /\ \E ev \in SetTimelockEvents : TolerantUpdate(ev)
    \/ nEvents < MaxEvents /\ \E ev \in OwnerStartedEvents : OwnershipTransferStarted(ev)
    \/ nEvents < MaxEvents
       /\ \E ev \in SetCuratorEvents : ev.newCurator = "b" /\ SetCurator(ev)
    \/ nEvents < MaxEvents
       /\ \E ev \in SubmitTimelockEvents : ev.newTimelock = 3 /\ SubmitTimelock(ev)

SpecTolerant == Init /\ [][NextTolerant]_vars

\* C32: in OwnershipTransferred, SetName, SetSymbol and SetTimelock only the
\* failure 'no existing vault record' becomes a no-op: when the store rejects
\* the update the error reaches the caller; and a handler outside these four
\* catches nothing: the error of its update reaches the caller too.
OnlyMissingRowTolerated ==
    [][LET ev == last'.ev
           vk == VaultKey(ev)
       IN  IF ev.kind \in TolerantKinds
           THEN /\ ~last'.storeOk => (last'.error = StoreError /\ tables' = tables)
                /\ (last'.storeOk /\ vk \notin DOMAIN vault)
                       => (last'.error = NoError /\ tables' = tables)
                /\ last'.storeOk
                       => /\ last'.error = NoError
                          /\ Registered(Db, ev).vault = vault'
           ELSE (ev.kind # "CreateMetaMorpho" /\ vk \notin DOMAIN vault)
                    => (last'.error = RecordNotFoundError("vault") /\ tables' = tables)]_vars

\* the store has rejected the update of a SetTimelock event on a vault that has
\* a row: the error has come through and the timelock is the old one
RejectedUpdateWitness ==
    /\ LastIs("SetTimelock") /\ last.error = StoreError /\ ~last.storeOk
    /\ VaultKey(last.ev) \in DOMAIN vault
    /\ vault[VaultKey(last.ev)].timelock # last.ev.newTimelock

(***************************************************************************)
(* A deposit, a withdrawal and a fee accrual: the Transfer event of the     *)
(* shares, and then the event that records the movement.                   *)
(***************************************************************************)
FlowTransferEvents ==
    {ev \in TransfersOf({1}) :
        <<ev.from, ev.to>> \in {<<zeroAddress, "a">>, <<"a", zeroAddress>>, <<"a", "b">>}}

NextFlows ==
    \/ nEvents < MaxEvents /\ \E ev \in CreateEvents : CreateMetaMorpho(ev)
    \/ nEvents < MaxEvents
       /\ \E ev \in SetFeeRecipientEvents : ev.newFeeRecipient = "a" /\ SetFeeRecipient(ev)
    \/ nEvents < MaxEvents /\ \E ev \in FlowTransferEvents : Transfer(ev)
    \/ nEvents < MaxEvents
       /\ \E ev \in AuditDepositEvents : ev.shares = 1 /\ ev.assets = 1 /\ Deposit(ev)
    \/ nEvents < MaxEvents
       /\ \E ev \in AuditWithdrawEvents : ev.shares = 1 /\ ev.assets = 1 /\ Withdraw(ev)
    \/ nEvents < MaxEvents
       /\ \E ev \in AccrueInterestEvents : ev.feeShares = 1 /\ AccrueInterest(ev)

SpecFlows == Init /\ [][NextFlows]_vars

\* the event before ev was the Transfer of the same transaction that moved
\* shares from from to to, and it was processed
TransferBefore(ev, from, to, shares) ==
    /\ last.error = NoError
    /\ last.ev.kind = "Transfer"
    /\ last.ev.chainId = ev.chainId /\ last.ev.address = ev.address
    /\ last.ev.hash = ev.hash
    /\ last.ev.from = from /\ last.ev.to = to /\ last.ev.value = shares

\* the step of ev added one transaction row, of the type, for a log that had
\* none, and changed no balance and no vault row
OneRowAdded(ev, type) ==
    LET tk == TransactionKey(ev)
    IN  /\ last'.error = NoError
        /\ DOMAIN transaction' = DOMAIN transaction \cup {tk}
        /\ \A k \in DOMAIN transaction : transaction'[k] = transaction[k]
        /\ transaction'[tk].type = type
        /\ vaultBalance' = vaultBalance
        /\ vault' = vault

\* C33: a mint or burn Transfer event inserts no transaction row, only a pure
\* transfer does; so a mint Transfer followed by Deposit gives one row, of the
\* deposit type, a burn Transfer followed by Withdraw one of the withdraw type,
\* a mint Transfer followed by AccrueInterest one of the fee type, and the
\* balance is changed once: by the Transfer event, not by the event after it.
FlowsRecordedOnce ==
    [][LET ev == last'.ev
           fresh == TransactionKey(ev) \notin DOMAIN transaction
       IN  /\ (IsMint(ev) \/ IsBurn(ev)) => transaction' = transaction
           /\ (IsMint(ev) /\ last'.error = NoError) =>
                  /\ vaultBalance' = Credited(vaultBalance, BalanceKey(ev, ev.to), ev.value)
                  /\ vault'[VaultKey(ev)].totalSupply =
                         vault[VaultKey(ev)].totalSupply + ev.value
           /\ (IsBurn(ev) /\ last'.error = NoError) =>
                  /\ vaultBalance' = Credited(vaultBalance, BalanceKey(ev, ev.from),
                                              0 - ev.value)
                  /\ vault'[VaultKey(ev)].totalSupply =
                         vault[VaultKey(ev)].totalSupply - ev.value
           /\ (IsPure(ev) /\ last'.error = NoError) =>
                  /\ fresh
                  /\ DOMAIN transaction' = DOMAIN transaction \cup {TransactionKey(ev)}
           /\ (/\ ev.kind = "Deposit" /\ fresh
               /\ TransferBefore(ev, zeroAddress, ev.owner, ev.shares))
                  => OneRowAdded(ev, "MetaMorphoDeposit")
           /\ (/\ ev.kind = "Withdraw" /\ fresh
               /\ TransferBefore(ev, ev.owner, zeroAddress, ev.shares))
                  => OneRowAdded(ev, "MetaMorphoWithdraw")
           /\ (/\ ev.kind = "AccrueInterest" /\ fresh
               /\ readContract(last'.answers).ok
               /\ TransferBefore(ev, zeroAddress, vault[VaultKey(ev)].feeRecipient,
                                 ev.feeShares))
                  => OneRowAdded(ev, "MetaMorphoFee")]_vars

\* the fee share minted to the fee recipient a, and then the AccrueInterest
\* event of the same transaction: one transaction row, one share
FlowsWitness ==
    /\ LastIs("AccrueInterest") /\ Succeeded
    /\ DOMAIN transaction = {TransactionKey(last.ev)}
    /\ transaction[TransactionKey(last.ev)].type = "MetaMorphoFee"
    /\ transaction[TransactionKey(last.ev)].user = "a"
    /\ DOMAIN vaultBalance = {BalanceKey(last.ev, "a")}
    /\ vaultBalance[BalanceKey(last.ev, "a")].shares = 1
    /\ vault[VaultKey(last.ev)].totalSupply = 1

(***************************************************************************)
(* SetCap with a cap of 0, and SetCap for a market that has no row.        *)
(***************************************************************************)
\* C34: SetCap(id, 0) on a ConfigItem that exists sets cap = 0 and clears
\* pendingCap and pendingCapValidAt, and leaves enabled and removableAt as they
\* were: an enabled market stays enabled, a pending removal keeps its time.
ZeroCapKeepsMarket ==
    [][(/\ last'.ev.kind = "SetCap" /\ last'.ev.cap = 0
        /\ ConfigKey(last'.ev) \in DOMAIN vaultConfigItem)
         => LET ck == ConfigKey(last'.ev)
                old == vaultConfigItem[ck]
                new == vaultConfigItem'[ck]
            IN  /\ last'.error = NoError
                /\ new.cap = 0 /\ new.pendingCap = 0 /\ new.pendingCapValidAt = 0
                /\ new.enabled = old.enabled
                /\ new.removableAt = old.removableAt]_vars

\* a cap of 0 has been set for a market that is enabled and whose removal is
\* pending: it is still enabled, and the removal keeps its time
ZeroCapWitness ==
    /\ LastIs("SetCap") /\ Succeeded /\ last.ev.cap = 0
    /\ ConfigKey(last.ev) \in DOMAIN vaultConfigItem
    /\ vaultConfigItem[ConfigKey(last.ev)].cap = 0
    /\ vaultConfigItem[ConfigKey(last.ev)].enabled
    /\ vaultConfigItem[ConfigKey(last.ev)].removableAt > 0

\* the event kinds whose handler inserts the ConfigItem that is missing
ConfigItemCreators == {"SubmitCap", "RevokePendingCap", "RevokePendingMarketRemoval"}

\* C35: SetCap never creates a ConfigItem: for a market that has no row it ends
\* in an error and leaves every table as it is; a ConfigItem is created only by
\* a SubmitCap, RevokePendingCap or RevokePendingMarketRemoval event, for its
\* own market and not enabled, so a row that is enabled or has a cap was first
\* created by one of these.
SetCapNeverCreates ==
    [][LET ev == last'.ev
       IN  /\ (ev.kind = "SetCap" /\ ConfigKey(ev) \notin DOMAIN vaultConfigItem)
                => /\ last'.error = RecordNotFoundError("vaultConfigItem")
                   /\ tables' = tables
           /\ DOMAIN vaultConfigItem' # DOMAIN vaultConfigItem
                => /\ ev.kind \in ConfigItemCreators
                   /\ DOMAIN vaultConfigItem' = DOMAIN vaultConfigItem \cup {ConfigKey(ev)}
                   /\ ~vaultConfigItem'[ConfigKey(ev)].enabled]_vars

\* SetCap for the market m1, which has no row, on a vault where m2 has one
SetCapMissingWitness ==
    /\ LastIs("SetCap") /\ last.error = RecordNotFoundError("vaultConfigItem")
    /\ last.ev.id = "m1" /\ last.ev.cap = 1
    /\ VaultKey(last.ev) \in DOMAIN vault
    /\ DOMAIN vaultConfigItem = {<<last.ev.chainId, last.ev.address, "m2">>}

(***************************************************************************)
(* A holder that sends shares to itself.                                   *)
(***************************************************************************)
\* C36: a pure Transfer of v > 0 from a holder to itself, the holder having a
\* row with at least v shares, leaves every vaultBalance row and every vault
\* row (totalSupply included) as it was, in whatever order the debit and the
\* credit of the row run, and inserts the transaction row of the event.
SelfTransferChangesNothing ==
    [][LET ev == last'.ev
           bk == BalanceKey(ev, ev.from)
       IN  (/\ IsPure(ev) /\ ev.from = ev.to
            /\ last'.error = NoError
            /\ bk \in DOMAIN vaultBalance
            /\ vaultBalance[bk].shares >= ev.value)
             => /\ vaultBalance' = vaultBalance
                /\ vault' = vault
                /\ TransactionKey(ev) \notin DOMAIN transaction
                /\ DOMAIN transaction' = DOMAIN transaction \cup {TransactionKey(ev)}]_vars

(***************************************************************************)
(* The two queues of a vault, and the queues of two vaults.                *)
(***************************************************************************)
\* the queues m1 and m1, m2, and the empty queue
PairQueues ==
    {q \in Queues : \A i \in DOMAIN q : q[i] = IF i = 1 THEN "m1" ELSE "m2"}

PairCreateEvents ==
    [kind : {"CreateMetaMorpho"}, chainId : Chains, address : CtorVaults,
     asset : {"usdc"}, decimalsUnderlying : {6}, initialOwner : {"a"},
     initialTimelock : {0}, name : {"n1"}, symbol : {"s1"}]

PairSupplyQueueEvents ==
    [kind : {"SetSupplyQueue"}, chainId : Chains, address : CtorVaults,
     newSupplyQueue : PairQueues]

PairWithdrawQueueEvents ==
    [kind : {"SetWithdrawQueue"}, chainId : Chains, address : CtorVaults,
     newWithdrawQueue : PairQueues]

NextQueuePair ==
    \/ nEvents < MaxEvents /\ \E ev \in PairCreateEvents : CreateMetaMorpho(ev)
    \/ nEvents < MaxEvents /\ \E ev \in PairSupplyQueueEvents : SetSupplyQueue(ev, {TRUE})
    \/ nEvents < MaxEvents
       /\ \E ev \in PairWithdrawQueueEvents : SetWithdrawQueue(ev, {TRUE})

SpecQueuePair == Init /\ [][NextQueuePair]_vars

\* the rows of the item table that belong to another vault than vk are the same
\* after the step, and no row of the table is missing after it
OtherVaultItemsKept(before, after, vk) ==
    /\ DOMAIN before \subseteq DOMAIN after
    /\ \A k \in DOMAIN after :
          <<k[1], k[2]>> # vk => (k \in DOMAIN before /\ after[k] = before[k])

\* C37: SetSupplyQueue changes only the supplyQueueLength of its vault and the
\* vaultSupplyQueueItem rows of its vault: withdrawQueueLength, every
\* vaultWithdrawQueueItem row, every other vault field, every other vault and
\* every other table are as before; the same holds for SetWithdrawQueue with the
\* two queues exchanged.
QueuesIndependent ==
    [][LET ev == last'.ev
           vk == VaultKey(ev)
       IN  /\ ev.kind = "SetSupplyQueue"
                => /\ vaultWithdrawQueueItem' = vaultWithdrawQueueItem
                   /\ UNCHANGED <<vaultBalance, transaction, vaultConfigItem>>
                   /\ DOMAIN vault' = DOMAIN vault
                   /\ \A k \in DOMAIN vault :
                         vault'[k] = IF k = vk
                                     THEN [vault[k] EXCEPT !.supplyQueueLength =
                                               vault'[k].supplyQueueLength]
                                     ELSE vault[k]
                   /\ OtherVaultItemsKept(vaultSupplyQueueItem,
                                          vaultSupplyQueueItem', vk)
           /\ ev.kind = "SetWithdrawQueue"
                => /\ vaultSupplyQueueItem' = vaultSupplyQueueItem
                   /\ UNCHANGED <<vaultBalance, transaction, vaultConfigItem>>
                   /\ DOMAIN vault' = DOMAIN vault
                   /\ \A k \in DOMAIN vault :
                         vault'[k] = IF k = vk
                                     THEN [vault[k] EXCEPT !.withdrawQueueLength =
                                               vault'[k].withdrawQueueLength]
                                     ELSE vault[k]
                   /\ OtherVaultItemsKept(vaultWithdrawQueueItem,
                                          vaultWithdrawQueueItem', vk)]_vars

\* the supply queue of v1 is set to m1 while v1 has the withdraw queue m1, m2
\* and the vault v2 exists
QueuesIndependentWitness ==
    /\ LastIs("SetSupplyQueue") /\ Succeeded
    /\ last.ev.address = "v1" /\ last.ev.newSupplyQueue = <<"m1">>
    /\ vault[VaultKey(last.ev)].supplyQueueLength = 1
    /\ vault[VaultKey(last.ev)].withdrawQueueLength = 2
    /\ <<last.ev.chainId, "v1", 1>> \in DOMAIN vaultWithdrawQueueItem
    /\ <<last.ev.chainId, "v2">> \in DOMAIN vault

====
